---- MODULE Spec2Model ----
(***************************************************************************)
(* Model of the routing engine of chittyos/email-worker: the email handler *)
(* of src/email-worker.js with its rate limiter, spam filter, AI           *)
(* classification, routing rules, workstream dispatcher and recorder.      *)
(* Strings are TLA+ strings; the JavaScript string methods the handler     *)
(* uses (toLowerCase, trim, includes, split, match) are operators below.   *)
(***************************************************************************)
EXTENDS Integers, Sequences, FiniteSets, TLC

(***************************************************************************)
(* JavaScript string primitives                                            *)
(***************************************************************************)
UpperToLower ==
  [c \in {"A","B","C","D","E","F","G","H","I","J","K","L","M",
          "N","O","P","Q","R","S","T","U","V","W","X","Y","Z"} |->
     CASE c = "A" -> "a" [] c = "B" -> "b" [] c = "C" -> "c" [] c = "D" -> "d"
       [] c = "E" -> "e" [] c = "F" -> "f" [] c = "G" -> "g" [] c = "H" -> "h"
       [] c = "I" -> "i" [] c = "J" -> "j" [] c = "K" -> "k" [] c = "L" -> "l"
       [] c = "M" -> "m" [] c = "N" -> "n" [] c = "O" -> "o" [] c = "P" -> "p"
       [] c = "Q" -> "q" [] c = "R" -> "r" [] c = "S" -> "s" [] c = "T" -> "t"
       [] c = "U" -> "u" [] c = "V" -> "v" [] c = "W" -> "w" [] c = "X" -> "x"
       [] c = "Y" -> "y" [] c = "Z" -> "z"]

RECURSIVE toLowerCase(_)
toLowerCase(s) ==
  IF s = "" THEN ""
  ELSE (IF Head(s) \in DOMAIN UpperToLower THEN UpperToLower[Head(s)] ELSE Head(s))
       \o toLowerCase(Tail(s))

\* s.includes(k): k occurs in s as a contiguous substring
includes(s, k) ==
  \E i \in 1..(Len(s) - Len(k) + 1) : SubSeq(s, i, i + Len(k) - 1) = k

\* index of the first occurrence of the one-character separator, 0 if none
indexOf(s, sep) ==
  IF \E i \in 1..Len(s) : SubSeq(s, i, i) = sep
  THEN CHOOSE i \in 1..Len(s) :
         /\ SubSeq(s, i, i) = sep
         /\ \A j \in 1..(i - 1) : SubSeq(s, j, j) # sep
  ELSE 0

\* s.split(sep) for a one-character separator
RECURSIVE split(_, _)
split(s, sep) ==
  IF indexOf(s, sep) = 0 THEN << s >>
  ELSE << SubSeq(s, 1, indexOf(s, sep) - 1) >>
       \o split(SubSeq(s, indexOf(s, sep) + 1, Len(s)), sep)

WhiteSpace == {" ", "\n", "\t", "\r"}

RECURSIVE trimStart(_)
trimStart(s) ==
  IF s # "" /\ Head(s) \in WhiteSpace THEN trimStart(Tail(s)) ELSE s

RECURSIVE trimEnd(_)
trimEnd(s) ==
  IF s # "" /\ SubSeq(s, Len(s), Len(s)) \in WhiteSpace
  THEN trimEnd(SubSeq(s, 1, Len(s) - 1)) ELSE s

trim(s) == trimEnd(trimStart(s))

Digits == {"0","1","2","3","4","5","6","7","8","9"}

\* from.match(/\d{5,}@/): five digits immediately followed by "@"
matchDigitsAt(s) ==
  \E i \in 1..(Len(s) - 5) :
    /\ \A j \in i..(i + 4) : SubSeq(s, j, j) \in Digits
    /\ SubSeq(s, i + 5, i + 5) = "@"

\* value of an array element that may be missing (destructuring gives undefined)
Undefined == "<undefined>"
at(seq, i) == IF i <= Len(seq) THEN seq[i] ELSE Undefined

(***************************************************************************)
(* Static configuration of the handler                                     *)
(***************************************************************************)
HARDCODED_DEFAULT == "no-reply@itcan.llc"
MGMT_FORWARD == "mgmt@aribia.llc"
NICK_FORWARD == "nick@jeanarlene.com"
SHARON_FORWARD == "sharon@itcanbellc.com"

\* env.DEFAULT_FORWARD || "no-reply@itcan.llc"  ("" models an unset binding)
DEFAULT_FORWARD(e) ==
  IF e.DEFAULT_FORWARD # "" THEN e.DEFAULT_FORWARD ELSE HARDCODED_DEFAULT

KNOWN_DOMAINS ==
  [d \in {"nevershitty.com", "chitty.cc", "chittychat.com", "chittyos.com",
          "mrniceweird.com", "chittyrouter.com", "chicagofurnishedcondos.com",
          "itcanbellc.com", "aribia.llc", "aribia.co", "apt-arlene.llc",
          "jeanarlene.com", "nickyb.me", "chittycorp.com"} |->
     [priority |-> d \in {"nevershitty.com", "chitty.cc", "chittyos.com",
                          "itcanbellc.com", "aribia.llc", "nickyb.me",
                          "chittycorp.com"}]]

\* KNOWN_DOMAINS[recipientDomain] || { priority: false }
domainConfig(recipientDomain) ==
  IF recipientDomain \in DOMAIN KNOWN_DOMAINS
  THEN KNOWN_DOMAINS[recipientDomain] ELSE [priority |-> FALSE]

Null == "<null>"

MgmtLocals == {"admin", "support", "legal", "security", "abuse", "postmaster",
               "mgmt", "management", "web"}
DevLocals == {"api", "webhook", "id", "dev", "info", "hello"}

\* mutant: the management local-parts go to the default address
specialRoutes_MgmtToDefault(e) ==
  [l \in MgmtLocals \cup {"nick", "sharon"} \cup DevLocals \cup {"noreply", "no-reply"} |->
     CASE l = "nick" -> NICK_FORWARD
       [] l = "sharon" -> SHARON_FORWARD
       [] l \in DevLocals \cup MgmtLocals -> DEFAULT_FORWARD(e)
       [] OTHER -> Null]

\* the specialRoutes table; Null marks "don't forward"
specialRoutes(e) ==
  [l \in MgmtLocals \cup {"nick", "sharon"} \cup DevLocals \cup {"noreply", "no-reply"} |->
     CASE l \in MgmtLocals -> MGMT_FORWARD
       [] l = "nick" -> NICK_FORWARD
       [] l = "sharon" -> SHARON_FORWARD
       [] l \in DevLocals -> DEFAULT_FORWARD(e)
       [] OTHER -> Null]

LitigationLocals == {"evidence", "litigation", "intake"}
FinanceLocals == {"finance", "accounting", "invoice", "invoices", "billing",
                  "bill", "pay", "payment"}
ComplianceLocals == {"compliance", "governance", "risk", "audit", "regulatory",
                     "ethics", "policy", "grc"}
PersonalLocals == {"nick", "sharon"}
PriorityLocals == {"legal", "security", "abuse"}

prioritySenders == {"@cloudflare.com", "@google.com", "@github.com",
                    "@stripe.com", "@openai.com", "@anthropic.com"}

spamKeywords == {"viagra", "casino", "lottery", "inheritance", "prince",
                 "click here now", "act now", "limited time", "you have won",
                 "bitcoin mining", "forex", "make money fast", "guarantee"}

Categories == {"invoice", "receipt", "contract", "legal", "support", "complaint",
               "meeting", "calendar", "newsletter", "marketing", "personal",
               "business", "api-notification", "security-alert", "compliance",
               "audit", "regulatory", "governance", "spam", "general"}
Sentiments == {"positive", "negative", "neutral", "urgent", "angry"}
Urgencies == {"critical", "high", "normal", "low"}
urgentKeywords == {"urgent", "asap", "emergency", "critical", "immediately",
                   "deadline", "expire", "final notice", "action required"}

RATE_THRESHOLD == 50
RATE_WINDOW_MS == 3600000
RATE_TTL_S == 3600

(***************************************************************************)
(* Pure parts of the handler                                               *)
(***************************************************************************)
\* const [recipientLocal, recipientDomain] = message.to.toLowerCase().split("@")
recipientLocal(m) == at(split(toLowerCase(m.to), "@"), 1)
recipientDomain(m) == at(split(toLowerCase(m.to), "@"), 2)

\* mutant: the sender is matched without lower-casing it
checkPrioritySender_CaseSensitive(from) ==
  \E sender \in prioritySenders : includes(from, sender)

checkPrioritySender(from) ==
  \E sender \in prioritySenders : includes(toLowerCase(from), sender)

\* mutant: the subject is matched without lower-casing it
isSpamQuick_CaseSensitive(m) ==
  \/ \E keyword \in spamKeywords : includes(m.subject, keyword)
  \/ matchDigitsAt(toLowerCase(m.from))
  \/ includes(toLowerCase(m.from), "..")

isSpamQuick(m) ==
  \/ \E keyword \in spamKeywords : includes(toLowerCase(m.subject), keyword)
  \/ matchDigitsAt(toLowerCase(m.from))
  \/ includes(toLowerCase(m.from), "..")

\* a check that rejects whenever a record is stored, whatever its count
rateExceeded_AnyRecord(parsed) == parsed.count >= 1

\* the comparison checkRateLimit applies to a parsed record
rateExceeded(parsed) == parsed.count > RATE_THRESHOLD

\* KV entries: the JSON text {count, window} with the expiry the put gave it
\* (json = FALSE: a stored text that JSON.parse throws on);
\* NoEntry is a key that was never written
NoEntry ==
  [present |-> FALSE, json |-> TRUE, count |-> 0, window |-> 0, expiresAt |-> 0]

\* env.RATE_LIMITS.get(key): null (present = FALSE) once the TTL has run out
kvGet(entry, t) ==
  IF entry.present /\ t < entry.expiresAt THEN entry ELSE NoEntry

\* mutant: the count is raised whatever the age of the window
nextRateRecord_NoReset(existing, t) ==
  IF existing.present
  THEN [count |-> existing.count + 1, window |-> existing.window]
  ELSE [count |-> 1, window |-> t]

\* mutant: a send within the window is counted twice
nextRateRecord_CountsTwice(existing, t) ==
  IF existing.present
  THEN (IF t - existing.window > RATE_WINDOW_MS
        THEN [count |-> 1, window |-> t]
        ELSE [count |-> existing.count + 2, window |-> existing.window])
  ELSE [count |-> 1, window |-> t]

\* the record updateRateLimit writes, given what its get returned
nextRateRecord(existing, t) ==
  IF existing.present
  THEN (IF t - existing.window > RATE_WINDOW_MS
        THEN [count |-> 1, window |-> t]
        ELSE [count |-> existing.count + 1, window |-> existing.window])
  ELSE [count |-> 1, window |-> t]

\* env.RATE_LIMITS.put(key, JSON.stringify(data), { expirationTtl: 3600 })
kvPut(data, t) ==
  [present |-> TRUE, json |-> TRUE, count |-> data.count, window |-> data.window,
   expiresAt |-> t + RATE_TTL_S * 1000]

\* An inference call either throws (response Null) or returns a text
AIError == Null

\* mutant: a failed classification call reads as spam
classifyEmail_SpamOnFailure(response) ==
  IF response = AIError THEN "spam"
  ELSE IF trim(toLowerCase(response)) \in Categories
       THEN trim(toLowerCase(response)) ELSE "general"

classifyEmail(response) ==
  IF response = AIError THEN "general"
  ELSE IF trim(toLowerCase(response)) \in Categories
       THEN trim(toLowerCase(response)) ELSE "general"

analyzeSentiment(response) ==
  IF response = AIError THEN "neutral"
  ELSE IF trim(toLowerCase(response)) \in Sentiments
       THEN trim(toLowerCase(response)) ELSE "neutral"

hasUrgentKeyword(subject, body) ==
  \E keyword \in urgentKeywords :
     includes(toLowerCase(subject \o " " \o body), keyword)

\* checkUrgency calls the inference capability only when a keyword is present
urgencyCallsAI(subject, body) == hasUrgentKeyword(subject, body)

\* mutant: a failed urgency call reads as normal
checkUrgency_NormalOnFailure(subject, body, response) ==
  IF response = AIError THEN "normal"
  ELSE IF trim(toLowerCase(response)) \in Urgencies
       THEN trim(toLowerCase(response)) ELSE "normal"

\* lines 662-713: no call without a keyword; a failed call with a keyword is high
checkUrgency(subject, body, response) ==
  IF ~hasUrgentKeyword(subject, body) THEN "normal"
  ELSE IF response = AIError
       THEN (IF hasUrgentKeyword(subject, body) THEN "high" ELSE "normal")
       ELSE IF trim(toLowerCase(response)) \in Urgencies
            THEN trim(toLowerCase(response)) ELSE "normal"

\* lines with a colon become {type, value} from the first two split parts
entityOf(line) ==
  [type |-> trim(at(split(line, ":"), 1)), value |-> trim(at(split(line, ":"), 2))]

\* mutant: the list is not cut to five entities
extractEntities_NoSlice(response) ==
  IF response = AIError THEN << >>
  ELSE LET lines == split(response, "\n")
           withColon == SelectSeq(lines, LAMBDA line : includes(line, ":"))
       IN  [i \in 1..Len(withColon) |-> entityOf(withColon[i])]

extractEntities(response) ==
  IF response = AIError THEN << >>
  ELSE LET lines == split(response, "\n")
           withColon == SelectSeq(lines, LAMBDA line : includes(line, ":"))
           mapped == [i \in 1..Len(withColon) |-> entityOf(withColon[i])]
       IN  SubSeq(mapped, 1, IF Len(mapped) < 5 THEN Len(mapped) ELSE 5)

\* aiInsights = null
NoInsights == [classification |-> Null, sentiment |-> Null, urgency |-> Null,
               entities |-> << >>]

\* mutant: only the exact local-parts are taken for no-reply addresses
isNoReply_ExactOnly(local) == local \in {"noreply", "no-reply"}

\* lines 148-151: the no-reply check
isNoReply(local) == includes(local, "noreply") \/ includes(local, "no-reply")

\* lines 147-250: what the recipient local-part alone decides.
\* action "discard" returns, "dispatch" calls sendToEvidenceRouter and returns,
\* "continue" goes on to the AI routing with forwardTo
recipientRoute(local, e) ==
  IF isNoReply(local)
  THEN [action |-> "discard", workstream |-> Null, forwardTo |-> Null]
  ELSE IF local \in LitigationLocals
  THEN (IF e.EVIDENCE_ROUTER_URL # ""
        THEN [action |-> "dispatch", workstream |-> "litigation", forwardTo |-> Null]
        ELSE [action |-> "continue", workstream |-> Null, forwardTo |-> MGMT_FORWARD])
  ELSE IF local \in FinanceLocals
  THEN (IF e.FINANCE_ROUTER_URL # ""
        THEN [action |-> "dispatch", workstream |-> "finance", forwardTo |-> Null]
        ELSE [action |-> "continue", workstream |-> Null, forwardTo |-> MGMT_FORWARD])
  ELSE IF local \in ComplianceLocals
  THEN (IF e.COMPLIANCE_ROUTER_URL # ""
        THEN [action |-> "dispatch", workstream |-> "compliance", forwardTo |-> Null]
        ELSE [action |-> "continue", workstream |-> Null, forwardTo |-> MGMT_FORWARD])
  ELSE IF local \in DOMAIN specialRoutes(e)
  THEN (IF specialRoutes(e)[local] = Null
        THEN [action |-> "discard", workstream |-> Null, forwardTo |-> Null]
        ELSE [action |-> "continue", workstream |-> Null,
              forwardTo |-> specialRoutes(e)[local]])
  ELSE [action |-> "continue", workstream |-> Null, forwardTo |-> DEFAULT_FORWARD(e)]

\* mutant: urgent mail goes to management also for the personal local-parts
aiOverride_NoExemption(ai, local, fwd, e) ==
  IF ai.classification \in {"legal", "contract"}
  THEN (IF e.EVIDENCE_ROUTER_URL # ""
        THEN [action |-> "dispatch", workstream |-> "litigation", forwardTo |-> fwd]
        ELSE [action |-> "continue", workstream |-> Null, forwardTo |-> MGMT_FORWARD])
  ELSE IF ai.classification = "complaint" /\ ai.sentiment = "angry"
  THEN [action |-> "continue", workstream |-> Null, forwardTo |-> MGMT_FORWARD]
  ELSE IF ai.urgency \in {"critical", "high"}
  THEN [action |-> "continue", workstream |-> Null, forwardTo |-> MGMT_FORWARD]
  ELSE [action |-> "continue", workstream |-> Null, forwardTo |-> fwd]

\* mutant: legal and contract mail is dispatched whether or not the evidence
\* endpoint is configured
aiOverride_DispatchUnconfigured(ai, local, fwd, e) ==
  IF ai.classification \in {"legal", "contract"}
  THEN [action |-> "dispatch", workstream |-> "litigation", forwardTo |-> fwd]
  ELSE IF ai.classification = "complaint" /\ ai.sentiment = "angry"
  THEN [action |-> "continue", workstream |-> Null, forwardTo |-> MGMT_FORWARD]
  ELSE IF ai.urgency \in {"critical", "high"}
  THEN [action |-> "continue", workstream |-> Null,
        forwardTo |-> IF local \notin PersonalLocals THEN MGMT_FORWARD ELSE fwd]
  ELSE [action |-> "continue", workstream |-> Null, forwardTo |-> fwd]

\* mutant: a message classified general is sent to management
aiOverride_GeneralToManagement(ai, local, fwd, e) ==
  IF ai.classification \in {"legal", "contract"}
  THEN (IF e.EVIDENCE_ROUTER_URL # ""
        THEN [action |-> "dispatch", workstream |-> "litigation", forwardTo |-> fwd]
        ELSE [action |-> "continue", workstream |-> Null, forwardTo |-> MGMT_FORWARD])
  ELSE IF ai.classification = "complaint" /\ ai.sentiment = "angry"
  THEN [action |-> "continue", workstream |-> Null, forwardTo |-> MGMT_FORWARD]
  ELSE IF ai.urgency \in {"critical", "high"}
  THEN [action |-> "continue", workstream |-> Null,
        forwardTo |-> IF local \notin PersonalLocals THEN MGMT_FORWARD ELSE fwd]
  ELSE [action |-> "continue", workstream |-> Null,
        forwardTo |-> IF ai.classification = "general" THEN MGMT_FORWARD ELSE fwd]

\* lines 255-297: the classification override of forwardTo
aiOverride(ai, local, fwd, e) ==
  IF ai.classification \in {"legal", "contract"}
  THEN (IF e.EVIDENCE_ROUTER_URL # ""
        THEN [action |-> "dispatch", workstream |-> "litigation", forwardTo |-> fwd]
        ELSE [action |-> "continue", workstream |-> Null, forwardTo |-> MGMT_FORWARD])
  ELSE IF ai.classification = "complaint" /\ ai.sentiment = "angry"
  THEN [action |-> "continue", workstream |-> Null, forwardTo |-> MGMT_FORWARD]
  ELSE IF ai.urgency \in {"critical", "high"}
  THEN [action |-> "continue", workstream |-> Null,
        forwardTo |-> IF local \notin PersonalLocals THEN MGMT_FORWARD ELSE fwd]
  ELSE [action |-> "continue", workstream |-> Null, forwardTo |-> fwd]

\* lines 312-358: the special classifications handled after the insights are stored.
\* "financial" is the handleFinancialEmail call, after which the handler forwards
specialClassification(ai, e) ==
  IF ai.classification \in {"invoice", "receipt"}
  THEN (IF e.FINANCE_ROUTER_URL # "" THEN [action |-> "dispatch", workstream |-> "finance"]
        ELSE [action |-> "financial", workstream |-> Null])
  ELSE IF ai.classification \in {"compliance", "audit", "regulatory", "governance"}
  THEN (IF e.COMPLIANCE_ROUTER_URL # ""
        THEN [action |-> "dispatch", workstream |-> "compliance"]
        ELSE [action |-> "continue", workstream |-> Null])
  ELSE [action |-> "continue", workstream |-> Null]

\* mutant: every workstream posts to the evidence endpoint
routerUrl_EvidenceOnly(ws, e) == e.EVIDENCE_ROUTER_URL

\* lines 810-814: the endpoint sendToEvidenceRouter posts to ("" is no URL)
routerUrl(ws, e) ==
  IF ws = "finance"
  THEN (IF e.FINANCE_ROUTER_URL # "" THEN e.FINANCE_ROUTER_URL ELSE e.EVIDENCE_ROUTER_URL)
  ELSE e.EVIDENCE_ROUTER_URL

\* lines 362-367
isPriority(m, ai) ==
  \/ domainConfig(recipientDomain(m)).priority
  \/ recipientLocal(m) \in PriorityLocals
  \/ checkPrioritySender(m.from)
  \/ (ai # NoInsights /\ ai.urgency \in {"high", "critical"})

(***************************************************************************)
(* Bounds and sampled inputs                                               *)
(***************************************************************************)
MaxFaults == 2        \* external calls that may throw in one invocation
MaxMessages == 60     \* messages one sender sends in the rate-limit runs
T0 == 7200000         \* Date.now() of the first invocation, in ms
STEP_MS == 10000      \* time between two messages of the rate-limit runs
LONG_STEP_MS == 1500000  \* a longer time between two messages (25 minutes)
MaxInvocations == 2   \* invocations for one sender that run concurrently

Recipients ==
  {"NoReply@chitty.cc", "billing-no-reply@unknown.example", "evidence@chitty.cc",
   "Invoice@chittychat.com", "audit@aribia.co", "admin@nevershitty.com",
   "legal@chittychat.com", "nick@chitty.cc", "hello@unknown.example",
   "random@chittychat.com", "random@chitty.cc"}

\* << from, subject, body >>
Letters ==
  { << "alice@example.com", "Quarterly report", "Please see the attachment." >>,
    << "alice@example.com", "URGENT: reply ASAP", "The deadline is tomorrow." >>,
    << "Bot@GitHub.com", "Quarterly report", "Please see the attachment." >>,
    << "alice@example.com", "You Have WON the Lottery", "Claim your prize." >>,
    << "1234567@bulk.example", "Hello", "Hi there." >>,
    << "a..b@example.com", "Hello", "Hi there." >> }

Messages ==
  { [from |-> l[1], to |-> r, subject |-> l[2], body |-> l[3]] :
      r \in Recipients, l \in Letters }

EVIDENCE_URL == "https://evidence.example/intake"
FINANCE_URL == "https://finance.example/intake"
COMPLIANCE_URL == "https://compliance.example/intake"

WEBHOOK == "https://hooks.example/email"

\* The inputs are sampled in two families.  The routing family has every
\* recipient, letter, router configuration and classification, with the
\* recorder bindings (KV namespaces, webhook) absent
RoutingEnvs ==
  [AI : BOOLEAN,
   EVIDENCE_ROUTER_URL : {"", EVIDENCE_URL},
   FINANCE_ROUTER_URL : {"", FINANCE_URL},
   COMPLIANCE_ROUTER_URL : {"", COMPLIANCE_URL},
   RATE_LIMITS : {FALSE},
   EMAIL_ANALYTICS : {FALSE},
   FINANCIAL_EMAILS : {FALSE},
   WEBHOOK_URL : {""},
   DEFAULT_FORWARD : {"", "ops@chitty.cc"}]

\* The recorder family has every combination of the recorder bindings, with
\* fewer recipients, letters, router configurations and classifications
RecorderEnvs ==
  { e \in [AI : BOOLEAN,
           EVIDENCE_ROUTER_URL : {"", EVIDENCE_URL},
           FINANCE_ROUTER_URL : {"", FINANCE_URL},
           COMPLIANCE_ROUTER_URL : {"", COMPLIANCE_URL},
           RATE_LIMITS : BOOLEAN,
           EMAIL_ANALYTICS : BOOLEAN,
           FINANCIAL_EMAILS : BOOLEAN,
           WEBHOOK_URL : {"", WEBHOOK},
           DEFAULT_FORWARD : {""}] :
      /\ (e.RATE_LIMITS \/ e.EMAIL_ANALYTICS \/ e.FINANCIAL_EMAILS \/ e.WEBHOOK_URL # "")
      /\ (e.EVIDENCE_ROUTER_URL = "") = (e.FINANCE_ROUTER_URL = "")
      /\ (e.EVIDENCE_ROUTER_URL = "") = (e.COMPLIANCE_ROUTER_URL = "") }

RecorderMessages ==
  { m \in Messages :
      /\ m.to \in {"NoReply@chitty.cc", "Invoice@chittychat.com",
                   "admin@nevershitty.com", "random@chittychat.com"}
      /\ m.subject \in {"Quarterly report", "You Have WON the Lottery"} }

Recorded(e) ==
  e.RATE_LIMITS \/ e.EMAIL_ANALYTICS \/ e.FINANCIAL_EMAILS \/ e.WEBHOOK_URL # ""

\* The classification family has one recipient and every kind of answer of
\* the inference capability: valid, unrecognized, and a failed call
ClassifyEnv ==
  [AI |-> TRUE, EVIDENCE_ROUTER_URL |-> "", FINANCE_ROUTER_URL |-> "",
   COMPLIANCE_ROUTER_URL |-> "", RATE_LIMITS |-> FALSE, EMAIL_ANALYTICS |-> FALSE,
   FINANCIAL_EMAILS |-> FALSE, WEBHOOK_URL |-> "", DEFAULT_FORWARD |-> "triage@chitty.cc"]

ClassifyMessages ==
  { m \in Messages :
      /\ m.to = "random@chittychat.com"
      /\ m.subject \in {"Quarterly report", "URGENT: reply ASAP"} }

SevenEntities == "a:1\nb:2\nnone\nc:3\nd:4\ne:5\nf:6\ng:7"

\* texts the inference capability may answer with; AIError is a failed call
CategoryResponses(e) ==
  IF e = ClassifyEnv
  THEN {"invoice", " Legal\n", "Security-Alert", "I cannot classify this", "", AIError}
  ELSE IF Recorded(e) THEN {"invoice", "audit", "SPAM", AIError}
  ELSE {" Legal\n", "contract", "complaint", "invoice", "receipt", "compliance",
        "audit", "SPAM", "I cannot classify this", AIError}
SentimentResponses(e) ==
  IF e = ClassifyEnv THEN {"Angry", " positive ", "furious", AIError}
  ELSE IF Recorded(e) THEN {AIError} ELSE {"Angry", AIError}
UrgencyResponses(e) ==
  IF e = ClassifyEnv THEN {"CRITICAL", "low", "soon", AIError}
  ELSE IF Recorded(e) THEN {AIError} ELSE {"CRITICAL", "soon", AIError}
EntityResponses(e) ==
  IF e = ClassifyEnv
  THEN {"amount: $1,200\nno colon here\ndate:2024-03-01", SevenEntities,
        "No entities found.", "time: 10:30", AIError}
  ELSE IF Recorded(e) THEN {"amount: $1,200\nno colon here\ndate:2024-03-01", AIError}
  ELSE {"amount: $1,200\nno colon here\ndate:2024-03-01"}

\* an outage of the inference capability: when the three other calls have
\* failed, the entity call may fail too
OutageResponses(cr, sr, ur) ==
  IF cr = AIError /\ sr = AIError /\ ur = AIError THEN {AIError} ELSE {}

(***************************************************************************)
(* State                                                                   *)
(***************************************************************************)
VARIABLES
  message,      \* the inbound message of the current invocation
  env,          \* the bindings of the current invocation
  RATE_LIMITS,  \* the KV entry under the key rate:<message.from>
  now,          \* Date.now()
  pc,           \* position of the handler
  aiInsights,   \* NoInsights, or the joined result of the four analyses
  forwardTo,    \* the handler's forwardTo variable
  workstream,   \* argument of the pending sendToEvidenceRouter call
  headers,      \* headers the handler has set on the message
  trace,        \* external calls issued so far, in order
  returnedAt,   \* which return of the handler ended the invocation
  faults,       \* external calls that have thrown in this invocation
  msgNo         \* ordinal of the current message of this sender

vars == << message, env, RATE_LIMITS, now, pc, aiInsights, forwardTo, workstream,
           headers, trace, returnedAt, faults, msgNo >>

Ev(op, site, arg, ok) == [op |-> op, site |-> site, arg |-> arg, ok |-> ok]

\* whether one more external call may throw
MayFail(n) == IF faults + n < MaxFaults THEN {TRUE, FALSE} ELSE {TRUE}

RATE_REASON == "Rate limit exceeded - please try again later"
SPAM_REASON == "Message classified as spam"
AI_SPAM_REASON == "Message classified as spam by AI"

\* a record a sender can have after 51 forwarded messages
OverLimitEntry ==
  [present |-> TRUE, json |-> TRUE, count |-> RATE_THRESHOLD + 1,
   window |-> T0 - 600000,
   expiresAt |-> T0 - STEP_MS + RATE_TTL_S * 1000]

StartOf(m, e, entry, t, n, f) ==
  /\ message = m
  /\ env = e
  /\ RATE_LIMITS = entry
  /\ now = t
  /\ pc = "checkRateLimit"
  /\ aiInsights = NoInsights
  /\ forwardTo = Null
  /\ workstream = Null
  /\ headers = {}
  /\ trace = << >>
  /\ returnedAt = Null
  /\ faults = f
  /\ msgNo = n

InitRouting ==
  \E m \in Messages, e \in RoutingEnvs : StartOf(m, e, NoEntry, T0, 1, 0)

InitRecorder ==
  \E m \in RecorderMessages, e \in RecorderEnvs, entry \in {NoEntry, OverLimitEntry} :
    /\ (entry # NoEntry => e.RATE_LIMITS)
    /\ StartOf(m, e, entry, T0, 1, 0)

Init == InitRouting \/ InitRecorder

(***************************************************************************)
(* The email handler, one action per stage                                 *)
(***************************************************************************)
\* mutant: the return after a reject is missing
afterReject_NoReturn(next) == next

\* mutant: the rate record is updated after a reject too
afterReject_ThenUpdate(next) == "updateRateLimit"

\* a setReject that did not throw is followed by the handler's return
\* (lines 53, 62, 95); next is the stage that follows the check
afterReject(next) == "done"

\* JSON.parse(data) returns a record (TRUE) or throws a SyntaxError (FALSE)
jsonParses(data) == data.json

\* mutant: a store that cannot be read counts as a sender over the limit
checkRateLimit_FailClosed(bound, getOk, data) ==
  bound /\ (~getOk \/ (data.present /\ (~jsonParses(data) \/ rateExceeded(data))))

\* checkRateLimit (492-509): false without the binding, false when the get or
\* the parse throws (caught at 504), false when nothing is stored, and
\* otherwise parsed.count > 50
checkRateLimit(bound, getOk, data) ==
  bound /\ getOk /\ data.present /\ jsonParses(data) /\ rateExceeded(data)

\* lines 49-54 with checkRateLimit (492-509): a failed get or parse is caught
\* inside checkRateLimit and reads as "not limited"
RateLimitCheck ==
  /\ pc = "checkRateLimit"
  /\ \E getOk \in (IF env.RATE_LIMITS THEN MayFail(0) ELSE {TRUE}) :
       LET data == kvGet(RATE_LIMITS, now)
           limited == checkRateLimit(env.RATE_LIMITS, getOk, data)
           reads == IF env.RATE_LIMITS
                    THEN << Ev("get", "checkRateLimit", message.from, getOk) >>
                    ELSE << >>
           f == IF getOk THEN 0 ELSE 1
       IN  IF limited
           THEN \E rejectOk \in MayFail(f) :
                  /\ trace' = trace \o reads
                                \o << Ev("setReject", "rateLimit", RATE_REASON, rejectOk) >>
                  /\ pc' = IF rejectOk THEN afterReject("isSpamQuick") ELSE "catch"
                  /\ returnedAt' = IF rejectOk THEN "rateLimited" ELSE returnedAt
                  /\ faults' = faults + f + (IF rejectOk THEN 0 ELSE 1)
           ELSE /\ trace' = trace \o reads
                /\ pc' = "isSpamQuick"
                /\ returnedAt' = returnedAt
                /\ faults' = faults + f
  /\ UNCHANGED << message, env, RATE_LIMITS, now, aiInsights, forwardTo,
                  workstream, headers, msgNo >>

\* lines 56-63
QuickSpamCheck ==
  /\ pc = "isSpamQuick"
  /\ IF isSpamQuick(message)
     THEN \E rejectOk \in MayFail(0) :
            /\ trace' = Append(trace, Ev("setReject", "quickSpam", SPAM_REASON, rejectOk))
            /\ pc' = IF rejectOk THEN afterReject("ai") ELSE "catch"
            /\ returnedAt' = IF rejectOk THEN "quickSpam" ELSE returnedAt
            /\ faults' = faults + (IF rejectOk THEN 0 ELSE 1)
     ELSE /\ pc' = "ai"
          /\ UNCHANGED << trace, returnedAt, faults >>
  /\ UNCHANGED << message, env, RATE_LIMITS, now, aiInsights, forwardTo,
                  workstream, headers, msgNo >>

\* mutant: when the category falls back to its default, the other analyses
\* fall back with it
joinInsights_DegradeTogether(classification, sentiment, urgency, entities) ==
  IF classification = "general"
  THEN [classification |-> "general", sentiment |-> "neutral", urgency |-> "normal",
        entities |-> << >>]
  ELSE [classification |-> classification, sentiment |-> sentiment,
        urgency |-> urgency, entities |-> entities]

\* lines 72-82: Promise.all over the four analyses, none of which rejects,
\* and the record built from their four results
joinInsights(classification, sentiment, urgency, entities) ==
  [classification |-> classification, sentiment |-> sentiment,
   urgency |-> urgency, entities |-> entities]

\* the ai.run calls of the four analyses, in the order Promise.all starts them
aiCalls(m, cr, sr, ur, er) ==
  << Ev("ai.run", "classifyEmail", cr, cr # AIError),
     Ev("ai.run", "analyzeSentiment", sr, sr # AIError) >>
  \o (IF urgencyCallsAI(m.subject, m.body)
      THEN << Ev("ai.run", "checkUrgency", ur, ur # AIError) >> ELSE << >>)
  \o << Ev("ai.run", "extractEntities", er, er # AIError) >>

\* lines 65-103: message.text(), the four analyses joined, the AI spam reject.
\* Everything here runs inside the inner try: a throw of message.text() or of
\* setReject is caught there and the handler goes on to the routing
AIProcessing ==
  /\ pc = "ai"
  /\ IF ~env.AI
     THEN /\ pc' = "route"
          /\ UNCHANGED << aiInsights, trace, returnedAt, faults >>
     ELSE \E textOk \in MayFail(0) :
            IF ~textOk
            THEN /\ trace' = Append(trace, Ev("text", "email", "", FALSE))
                 /\ pc' = "route"
                 /\ faults' = faults + 1
                 /\ UNCHANGED << aiInsights, returnedAt >>
            ELSE \E cr \in CategoryResponses(env), sr \in SentimentResponses(env),
                    ur \in (IF urgencyCallsAI(message.subject, message.body)
                            THEN UrgencyResponses(env) ELSE {AIError}) :
                 \E er \in EntityResponses(env) \cup OutageResponses(cr, sr, ur) :
                   LET insights ==
                         joinInsights(classifyEmail(cr), analyzeSentiment(sr),
                                      checkUrgency(message.subject, message.body, ur),
                                      extractEntities(er))
                       called == trace \o << Ev("text", "email", "", TRUE) >>
                                   \o aiCalls(message, cr, sr, ur, er)
                   IN  /\ aiInsights' = insights
                       /\ IF insights.classification = "spam"
                          THEN \E rejectOk \in MayFail(0) :
                                 /\ trace' = Append(called,
                                      Ev("setReject", "aiSpam", AI_SPAM_REASON, rejectOk))
                                 /\ pc' = IF rejectOk THEN afterReject("route") ELSE "route"
                                 /\ returnedAt' = IF rejectOk THEN "aiSpam" ELSE returnedAt
                                 /\ faults' = faults + (IF rejectOk THEN 0 ELSE 1)
                          ELSE /\ trace' = called
                               /\ pc' = "route"
                               /\ UNCHANGED << returnedAt, faults >>
  /\ UNCHANGED << message, env, RATE_LIMITS, now, forwardTo, workstream,
                  headers, msgNo >>

\* lines 105-250: no-reply discard, workstream trigger sets, specialRoutes
RecipientRouting ==
  /\ pc = "route"
  /\ LET r == recipientRoute(recipientLocal(message), env)
     IN  /\ pc' = CASE r.action = "discard" -> "done"
                    [] r.action = "dispatch" -> "sendToEvidenceRouter"
                    [] OTHER -> "aiRouting"
         /\ returnedAt' = IF r.action = "discard" THEN "discard" ELSE returnedAt
         /\ workstream' = r.workstream
         /\ forwardTo' = IF r.action = "continue" THEN r.forwardTo
                         ELSE DEFAULT_FORWARD(env)
  /\ UNCHANGED << message, env, RATE_LIMITS, now, aiInsights, headers, trace,
                  faults, msgNo >>

\* how a recorder or notifier call ends, given whether its put or fetch threw:
\* each wraps the call in try/catch and logs the error
storeAIInsights(putOk) == "returned"
handleFinancialEmail(putOk) == "returned"

\* mutant: logAnalytics without its try/catch
logAnalytics_NoCatch(putOk) == IF putOk THEN "returned" ELSE "thrown"

logAnalytics(putOk) == "returned"
sendWebhook(fetchOk) == "returned"

\* lines 252-359: classification override, storeAIInsights, then the finance and
\* compliance classifications.  storeAIInsights and handleFinancialEmail catch
\* their own put failures
AISmartRouting ==
  /\ pc = "aiRouting"
  /\ IF aiInsights = NoInsights
     THEN /\ pc' = "forward"
          /\ UNCHANGED << forwardTo, workstream, trace, faults >>
     ELSE LET o == aiOverride(aiInsights, recipientLocal(message), forwardTo, env)
              sc == specialClassification(aiInsights, env)
          IN  IF o.action = "dispatch"
              THEN /\ pc' = "sendToEvidenceRouter"
                   /\ workstream' = o.workstream
                   /\ UNCHANGED << forwardTo, trace, faults >>
              ELSE \E storeOk \in (IF env.EMAIL_ANALYTICS THEN MayFail(0) ELSE {TRUE}) :
                     LET f == IF storeOk THEN 0 ELSE 1
                         stored == IF env.EMAIL_ANALYTICS
                                   THEN << Ev("put", "storeAIInsights", o.forwardTo, storeOk) >>
                                   ELSE << >>
                     IN  /\ forwardTo' = o.forwardTo
                         /\ IF env.EMAIL_ANALYTICS /\ storeAIInsights(storeOk) = "thrown"
                            THEN /\ pc' = "catch"
                                 /\ workstream' = workstream
                                 /\ trace' = trace \o stored
                                 /\ faults' = faults + f
                            ELSE IF sc.action = "dispatch"
                            THEN /\ pc' = "sendToEvidenceRouter"
                                 /\ workstream' = sc.workstream
                                 /\ trace' = trace \o stored
                                 /\ faults' = faults + f
                            ELSE IF sc.action = "financial"
                            THEN \E finOk \in (IF env.FINANCIAL_EMAILS THEN MayFail(f) ELSE {TRUE}) :
                                   /\ pc' = IF env.FINANCIAL_EMAILS
                                               /\ handleFinancialEmail(finOk) = "thrown"
                                            THEN "catch" ELSE "forward"
                                   /\ workstream' = workstream
                                   /\ trace' = trace \o stored \o
                                        (IF env.FINANCIAL_EMAILS
                                         THEN << Ev("put", "handleFinancialEmail", message.from, finOk) >>
                                         ELSE << >>)
                                   /\ faults' = faults + f + (IF finOk THEN 0 ELSE 1)
                            ELSE /\ pc' = "forward"
                                 /\ workstream' = workstream
                                 /\ trace' = trace \o stored
                                 /\ faults' = faults + f
  /\ UNCHANGED << message, env, RATE_LIMITS, now, aiInsights, headers,
                  returnedAt, msgNo >>

\* mutant: the return after sendToEvidenceRouter is missing
afterDispatch_FallsThrough == "forward"

\* every call of sendToEvidenceRouter is followed by the handler's return
\* (lines 172, 203, 234, 271, 328, 356)
afterDispatch == "done"

\* mutant: the response status is not looked at
postSucceeded_IgnoresStatus(res) == res \in {"ok", "status500"}

\* lines 821-836: the POST succeeded when fetch returned and response.ok
postSucceeded(res) == res = "ok"

\* what fetch(routerUrl) can give: a success status, another status, a throw
FetchResults(n) == {"ok", "status500"} \cup (IF faults + n < MaxFaults THEN {"throw"} ELSE {})

\* lines 791-847: the whole of sendToEvidenceRouter and the caller's return.
\* A throw of message.raw(), a missing URL, a throw of fetch and a non-ok
\* response all end in the catch, which forwards to mgmt@aribia.llc; a throw
\* of that forward leaves the function and reaches the handler's catch
SendToEvidenceRouter ==
  /\ pc = "sendToEvidenceRouter"
  /\ \E rawOk \in MayFail(0) :
     \E res \in (IF rawOk /\ routerUrl(workstream, env) # ""
                 THEN FetchResults(0) ELSE {"none"}) :
       LET url == routerUrl(workstream, env)
           f == (IF rawOk THEN 0 ELSE 1) + (IF res = "throw" THEN 1 ELSE 0)
           called == trace \o << Ev("sendToEvidenceRouter", workstream, "", TRUE),
                                 Ev("raw", workstream, "", rawOk) >>
                       \o (IF res # "none"
                           THEN << Ev("fetch", workstream, url, res = "ok") >> ELSE << >>)
       IN  IF postSucceeded(res)
           THEN /\ trace' = called
                /\ pc' = afterDispatch
                /\ returnedAt' = "dispatch"
                /\ faults' = faults + f
           ELSE \E forwardOk \in MayFail(f) :
                  /\ trace' = Append(called,
                        Ev("forward", "dispatchFallback", MGMT_FORWARD, forwardOk))
                  /\ pc' = IF forwardOk THEN afterDispatch ELSE "catch"
                  /\ returnedAt' = IF forwardOk THEN "dispatch" ELSE returnedAt
                  /\ faults' = faults + f + (IF forwardOk THEN 0 ELSE 1)
  /\ UNCHANGED << message, env, RATE_LIMITS, now, aiInsights, forwardTo,
                  workstream, headers, msgNo >>

entityCount(n) ==
  CASE n = 1 -> "1" [] n = 2 -> "2" [] n = 3 -> "3" [] n = 4 -> "4" [] OTHER -> "5"

\* lines 369-392: the headers set before the forward
headersSet(m, ai) ==
  { << "X-Cloudflare-Worker", "chittyos-email-universal-ai" >>,
    << "X-Original-To", m.to >>,
    << "X-Routed-Domain", recipientDomain(m) >> }
  \cup (IF ai # NoInsights
        THEN { << "X-AI-Classification", ai.classification >>,
               << "X-AI-Sentiment", ai.sentiment >>,
               << "X-AI-Urgency", ai.urgency >> }
             \cup (IF Len(ai.entities) > 0
                   THEN { << "X-AI-Entities", entityCount(Len(ai.entities)) >> }
                   ELSE {})
        ELSE {})
  \cup (IF isPriority(m, ai)
        THEN { << "X-Priority", "High" >>, << "Importance", "high" >> } ELSE {})

\* mutant: priority mail is forwarded to management
forwardAddress_PriorityToMgmt(fwd, priority) == IF priority THEN MGMT_FORWARD ELSE fwd

\* line 398: message.forward(forwardTo), whatever isPriority is
forwardAddress(fwd, priority) == fwd

\* lines 361-425: priority, headers, message.forward(forwardTo), then
\* logAnalytics and the priority webhook, which catch their own failures
ForwardEmail ==
  /\ pc = "forward"
  /\ headers' = headersSet(message, aiInsights)
  /\ LET priority == isPriority(message, aiInsights)
         address == forwardAddress(forwardTo, priority)
         hooked == priority /\ env.WEBHOOK_URL # ""
     IN  \E forwardOk \in MayFail(0) :
           IF ~forwardOk
           THEN /\ trace' = Append(trace, Ev("forward", "direct", address, FALSE))
                /\ pc' = "catch"
                /\ faults' = faults + 1
           ELSE \E logOk \in (IF env.EMAIL_ANALYTICS THEN MayFail(0) ELSE {TRUE}) :
                  LET logged == IF env.EMAIL_ANALYTICS
                                THEN << Ev("put", "logAnalytics", forwardTo, logOk) >>
                                ELSE << >>
                      f == IF logOk THEN 0 ELSE 1
                  IN  IF env.EMAIL_ANALYTICS /\ logAnalytics(logOk) = "thrown"
                      THEN /\ trace' = trace \o << Ev("forward", "direct", address, TRUE) >>
                                         \o logged
                           /\ pc' = "catch"
                           /\ faults' = faults + f
                      ELSE \E hookOk \in (IF hooked THEN MayFail(f) ELSE {TRUE}) :
                             /\ trace' = trace \o << Ev("forward", "direct", address, TRUE) >>
                                  \o logged
                                  \o (IF hooked
                                      THEN << Ev("fetch", "sendWebhook", "priority_email", hookOk) >>
                                      ELSE << >>)
                             /\ pc' = IF hooked /\ sendWebhook(hookOk) = "thrown"
                                      THEN "catch" ELSE "updateRateLimit"
                             /\ faults' = faults + f + (IF hookOk THEN 0 ELSE 1)
  /\ UNCHANGED << message, env, RATE_LIMITS, now, aiInsights, forwardTo,
                  workstream, returnedAt, msgNo >>

\* lines 427-428 with updateRateLimit (512-537): get, parse, then put with a
\* TTL; a failure of any of them is caught inside updateRateLimit
UpdateRateLimit ==
  /\ pc = "updateRateLimit"
  /\ pc' = "done"
  /\ returnedAt' = "forwarded"
  /\ IF ~env.RATE_LIMITS
     THEN UNCHANGED << RATE_LIMITS, trace, faults >>
     ELSE \E getOk \in MayFail(0) :
            LET existing == kvGet(RATE_LIMITS, now)
                parsed == getOk /\ (existing.present => jsonParses(existing))
                data == nextRateRecord(existing, now)
            IN  \E putOk \in (IF parsed THEN MayFail(0) ELSE {TRUE}) :
                /\ trace' = trace \o << Ev("get", "updateRateLimit", message.from, getOk) >>
                     \o (IF parsed
                         THEN << Ev("put", "updateRateLimit", message.from, putOk) >>
                         ELSE << >>)
                /\ RATE_LIMITS' = IF parsed /\ putOk THEN kvPut(data, now) ELSE RATE_LIMITS
                /\ faults' = faults + (IF getOk /\ putOk THEN 0 ELSE 1)
  /\ UNCHANGED << message, env, now, aiInsights, forwardTo, workstream,
                  headers, msgNo >>

\* mutant: the catch only logs the error
CatchFallback_LogOnly ==
  /\ pc = "catch"
  /\ pc' = "done"
  /\ returnedAt' = "caught"
  /\ UNCHANGED << message, env, RATE_LIMITS, now, aiInsights, forwardTo,
                  workstream, headers, trace, faults, msgNo >>

\* lines 429-438: the handler's catch forwards to the hardcoded address once
CatchFallback ==
  /\ pc = "catch"
  /\ \E forwardOk \in MayFail(0) :
       /\ trace' = Append(trace, Ev("forward", "catchFallback", HARDCODED_DEFAULT, forwardOk))
       /\ faults' = faults + (IF forwardOk THEN 0 ELSE 1)
  /\ pc' = "done"
  /\ returnedAt' = "caught"
  /\ UNCHANGED << message, env, RATE_LIMITS, now, aiInsights, forwardTo,
                  workstream, headers, msgNo >>

Next ==
  \/ RateLimitCheck
  \/ QuickSpamCheck
  \/ AIProcessing
  \/ RecipientRouting
  \/ AISmartRouting
  \/ SendToEvidenceRouter
  \/ ForwardEmail
  \/ UpdateRateLimit
  \/ CatchFallback

Spec == Init /\ [][Next]_vars

(***************************************************************************)
(* The classification engine alone: the AI block of lines 65-103 on the    *)
(* classification family of inputs                                         *)
(***************************************************************************)
InitClassify ==
  \E m \in ClassifyMessages :
    /\ StartOf(m, ClassifyEnv, NoEntry, T0, 1, 0)

NextClassify ==
  \/ RateLimitCheck
  \/ QuickSpamCheck
  \/ AIProcessing

SpecClassify == InitClassify /\ [][NextClassify]_vars

(***************************************************************************)
(* The handler under the hosting runtime's request timeout.  The handler   *)
(* sets no timer and races no await against one: when the runtime cancels  *)
(* the invocation, the pending await never resumes, and neither the rest   *)
(* of the try block nor the catch of lines 429-438 runs                    *)
(***************************************************************************)
RuntimeTimeout ==
  /\ pc # "done"
  /\ pc' = "done"
  /\ returnedAt' = "cancelled"
  /\ UNCHANGED << message, env, RATE_LIMITS, now, aiInsights, forwardTo,
                  workstream, headers, trace, faults, msgNo >>

NextTimeout ==
  \/ RateLimitCheck
  \/ QuickSpamCheck
  \/ AIProcessing
  \/ RecipientRouting
  \/ AISmartRouting
  \/ SendToEvidenceRouter
  \/ ForwardEmail
  \/ UpdateRateLimit
  \/ CatchFallback
  \/ RuntimeTimeout

SpecTimeout == InitRecorder /\ [][NextTimeout]_vars

(***************************************************************************)
(* One sender sending message after message, STEP_MS apart, with no        *)
(* external call failing: the runs of the rate limiter                     *)
(***************************************************************************)
RateMessage ==
  [from |-> "alice@example.com", to |-> "random@chittychat.com",
   subject |-> "Quarterly report", body |-> "Please see the attachment."]

RateEnv ==
  [AI |-> FALSE, EVIDENCE_ROUTER_URL |-> "", FINANCE_ROUTER_URL |-> "",
   COMPLIANCE_ROUTER_URL |-> "", RATE_LIMITS |-> TRUE, EMAIL_ANALYTICS |-> FALSE,
   FINANCIAL_EMAILS |-> FALSE, WEBHOOK_URL |-> "", DEFAULT_FORWARD |-> ""]

InitRate == StartOf(RateMessage, RateEnv, NoEntry, T0, 1, MaxFaults)

\* the next invocation for the same sender, step ms after the last one; the
\* KV store is what persists
Arrive(step) ==
  /\ pc = "done"
  /\ msgNo < MaxMessages
  /\ message' = RateMessage
  /\ env' = env
  /\ RATE_LIMITS' = RATE_LIMITS
  /\ now' = now + step
  /\ pc' = "checkRateLimit"
  /\ aiInsights' = NoInsights
  /\ forwardTo' = Null
  /\ workstream' = Null
  /\ headers' = {}
  /\ trace' = << >>
  /\ returnedAt' = Null
  /\ faults' = faults
  /\ msgNo' = msgNo + 1

NextMessage == Arrive(STEP_MS)

NextRate ==
  \/ RateLimitCheck
  \/ QuickSpamCheck
  \/ AIProcessing
  \/ RecipientRouting
  \/ AISmartRouting
  \/ ForwardEmail
  \/ UpdateRateLimit
  \/ NextMessage

SpecRate == InitRate /\ [][NextRate]_vars

(***************************************************************************)
(* The same sender with messages either STEP_MS or LONG_STEP_MS apart, so  *)
(* that windows run out while a record is still stored                     *)
(***************************************************************************)
LaterMessage == Arrive(LONG_STEP_MS)

NextClock ==
  \/ RateLimitCheck
  \/ QuickSpamCheck
  \/ AIProcessing
  \/ RecipientRouting
  \/ AISmartRouting
  \/ ForwardEmail
  \/ UpdateRateLimit
  \/ NextMessage
  \/ LaterMessage

SpecClock == InitRate /\ [][NextClock]_vars

(***************************************************************************)
(* The store of the rate limiter as it can fail: the binding absent, a get *)
(* or a put that throws, or a stored text that is no JSON                  *)
(***************************************************************************)
\* a stored text JSON.parse throws on, not yet expired
CorruptEntry ==
  [present |-> TRUE, json |-> FALSE, count |-> 0, window |-> 0,
   expiresAt |-> T0 - STEP_MS + RATE_TTL_S * 1000]

StoreEnvs == {RateEnv, [RateEnv EXCEPT !.RATE_LIMITS = FALSE]}

StoreMessages ==
  { m \in RecorderMessages : m.to \in {"random@chittychat.com", "admin@nevershitty.com"} }

InitStore ==
  \E m \in StoreMessages, e \in StoreEnvs,
     entry \in {NoEntry, OverLimitEntry, CorruptEntry} :
    /\ (entry # NoEntry => e.RATE_LIMITS)
    /\ StartOf(m, e, entry, T0, 1, 0)

NextStore ==
  \/ RateLimitCheck
  \/ QuickSpamCheck
  \/ AIProcessing
  \/ RecipientRouting
  \/ AISmartRouting
  \/ ForwardEmail
  \/ UpdateRateLimit
  \/ CatchFallback

SpecStore == InitStore /\ [][NextStore]_vars

(***************************************************************************)
(* Concurrent invocations for one sender.  Each invocation is independent  *)
(* and shares only the key-value store; pc and returnedAt hold one entry   *)
(* per invocation, and the get and put events carry the invocation and the *)
(* record read or written.  No call fails and the clock stands still, so   *)
(* every step is within one window                                         *)
(***************************************************************************)
Invocations == 1..MaxInvocations

\* records a sender may have stored when the invocations start
StoredEntries ==
  {NoEntry} \cup
  { [present |-> TRUE, json |-> TRUE, count |-> c, window |-> T0 - 600000,
     expiresAt |-> T0 - STEP_MS + RATE_TTL_S * 1000] : c \in {3, 49, 50} }

InitConcurrent ==
  /\ message = RateMessage
  /\ env = RateEnv
  /\ RATE_LIMITS \in StoredEntries
  /\ now = T0
  /\ pc = [i \in Invocations |-> "checkRateLimit"]
  /\ aiInsights = NoInsights
  /\ forwardTo = DEFAULT_FORWARD(RateEnv)
  /\ workstream = Null
  /\ headers = {}
  /\ trace = << >>
  /\ returnedAt = [i \in Invocations |-> Null]
  /\ faults = MaxFaults
  /\ msgNo = MaxInvocations

\* the record invocation i read with the get of updateRateLimit (line 517)
existingOf(i) ==
  LET gets == { k \in 1..Len(trace) :
                  /\ trace[k].op = "get" /\ trace[k].site = "updateRateLimit"
                  /\ trace[k].arg.inv = i }
  IN  trace[CHOOSE k \in gets : TRUE].arg.data

\* mutant: the record written is computed from the record stored at the time
\* of the put, as a transactional read-modify-write would
putData_Transactional(existing, stored, t) == nextRateRecord(stored, t)

\* lines 519-533: the record written is computed from the record this
\* invocation read earlier, whatever is stored by now
putData(existing, stored, t) == nextRateRecord(existing, t)

\* lines 49-54 and 398 for invocation i: the get of checkRateLimit, then the
\* reject and return, or (RateMessage is neither spam nor specially routed)
\* the forward to the default address
ConcurrentCheck ==
  \E i \in Invocations :
    /\ pc[i] = "checkRateLimit"
    /\ LET data == kvGet(RATE_LIMITS, now)
           read == Ev("get", "checkRateLimit", [inv |-> i, data |-> data], TRUE)
       IN  IF data.present /\ rateExceeded(data)
           THEN /\ trace' = trace \o << read, Ev("setReject", "rateLimit", RATE_REASON, TRUE) >>
                /\ pc' = [pc EXCEPT ![i] = "done"]
                /\ returnedAt' = [returnedAt EXCEPT ![i] = "rateLimited"]
           ELSE /\ trace' = trace \o << read, Ev("forward", "direct", forwardTo, TRUE) >>
                /\ pc' = [pc EXCEPT ![i] = "updateRateLimit"]
                /\ returnedAt' = returnedAt
    /\ UNCHANGED << message, env, RATE_LIMITS, now, aiInsights, forwardTo,
                    workstream, headers, faults, msgNo >>

\* line 517 for invocation i: existing = await env.RATE_LIMITS.get(key)
ConcurrentUpdateGet ==
  \E i \in Invocations :
    /\ pc[i] = "updateRateLimit"
    /\ trace' = Append(trace, Ev("get", "updateRateLimit",
                                 [inv |-> i, data |-> kvGet(RATE_LIMITS, now)], TRUE))
    /\ pc' = [pc EXCEPT ![i] = "updateRateLimit.put"]
    /\ UNCHANGED << message, env, RATE_LIMITS, now, aiInsights, forwardTo,
                    workstream, headers, returnedAt, faults, msgNo >>

\* lines 519-533 for invocation i: the put of the record computed from existing
ConcurrentUpdatePut ==
  \E i \in Invocations :
    /\ pc[i] = "updateRateLimit.put"
    /\ LET data == putData(existingOf(i), kvGet(RATE_LIMITS, now), now)
       IN  /\ RATE_LIMITS' = kvPut(data, now)
           /\ trace' = Append(trace, Ev("put", "updateRateLimit",
                                        [inv |-> i, data |-> data], TRUE))
    /\ pc' = [pc EXCEPT ![i] = "done"]
    /\ returnedAt' = [returnedAt EXCEPT ![i] = "forwarded"]
    /\ UNCHANGED << message, env, now, aiInsights, forwardTo, workstream,
                    headers, faults, msgNo >>

NextConcurrent ==
  \/ ConcurrentCheck
  \/ ConcurrentUpdateGet
  \/ ConcurrentUpdatePut

SpecConcurrent == InitConcurrent /\ [][NextConcurrent]_vars

(***************************************************************************)
(* The v2 worker (src/unnamed/part_001): per-domain configuration, no      *)
(* classification, no global default address                               *)
(***************************************************************************)
V2_FORWARD == "nick@mrniceweird.com"

DOMAIN_CONFIG ==
  [d \in {"nevershitty.com", "chitty.cc", "chittychat.com", "chittyos.com",
          "mrniceweird.com", "chittyrouter.com"} |->
     [defaultForward |-> V2_FORWARD,
      trackAnalytics |-> d \in {"nevershitty.com", "chitty.cc", "chittychat.com",
                                "chittyos.com"},
      enableWebhooks |-> d = "nevershitty.com"]]

\* mutant: every domain is taken as configured
V2_domainConfigured_Any(domain) == TRUE

\* const domainConfig = DOMAIN_CONFIG[recipientDomain]; if (!domainConfig) ...
V2_domainConfigured(domain) == domain \in DOMAIN DOMAIN_CONFIG

V2_specialRoutes ==
  [l \in {"legal", "security", "abuse", "postmaster", "api", "webhook", "id",
          "support", "admin"} |-> V2_FORWARD]

V2_spamKeywords ==
  {"viagra", "casino", "lottery", "inheritance", "nigerian prince",
   "click here now", "act now", "limited time offer", "you have won",
   "bitcoin mining", "forex trading", "make money fast"}

isSpam(m) ==
  \/ \E keyword \in V2_spamKeywords : includes(toLowerCase(m.subject), keyword)
  \/ matchDigitsAt(toLowerCase(m.from))
  \/ includes(toLowerCase(m.from), "..")
  \/ /\ includes(toLowerCase(m.from), "noreply@")
     /\ ~includes(toLowerCase(m.from), "@github.com")
     /\ ~includes(toLowerCase(m.from), "@google.com")

checkPriority(m, local) ==
  \/ local \in {"legal", "security", "abuse", "urgent"}
  \/ \E sender \in {"@cloudflare.com", "@google.com", "@github.com", "@stripe.com"} :
       includes(toLowerCase(m.from), sender)
  \/ \E word \in {"urgent", "critical", "security"} :
       includes(toLowerCase(m.subject), word)

V2_Recipients ==
  {"random@unknown.example", "Legal@Unknown.Example", "legal@chitty.cc",
   "random@nevershitty.com", "billing@aribia.llc", "random@mrniceweird.com"}

V2_Letters ==
  { << "alice@example.com", "Quarterly report", "Please see the attachment." >>,
    << "Bot@GitHub.com", "URGENT: reply ASAP", "The deadline is tomorrow." >>,
    << "noreply@shop.example", "Your order", "Thank you." >>,
    << "alice@example.com", "You Have WON the Lottery", "Claim your prize." >> }

V2_Messages ==
  { [from |-> l[1], to |-> r, subject |-> l[2], body |-> l[3]] :
      r \in V2_Recipients, l \in V2_Letters }

V2_Envs ==
  [CHITTY_API_KEY : BOOLEAN, RATE_LIMITS : BOOLEAN, EMAIL_ANALYTICS : BOOLEAN,
   WEBHOOK_URL : {"", WEBHOOK}]

InitV2 ==
  \E m \in V2_Messages, e \in V2_Envs, entry \in {NoEntry, OverLimitEntry} :
    /\ (entry # NoEntry => e.RATE_LIMITS)
    /\ message = m
    /\ env = e
    /\ RATE_LIMITS = entry
    /\ now = T0
    /\ pc = "v2.generateTransactionId"
    /\ aiInsights = NoInsights
    /\ forwardTo = Null
    /\ workstream = Null
    /\ headers = {}
    /\ trace = << >>
    /\ returnedAt = Null
    /\ faults = 0
    /\ msgNo = 1

\* generateTransactionId: the ChittyID request is made with an API key and
\* every failure of it (throw, status, body) falls back to a local id
V2_GenerateTransactionId ==
  /\ pc = "v2.generateTransactionId"
  /\ pc' = "v2.domainConfig"
  /\ IF env.CHITTY_API_KEY
     THEN \E fetchOk \in MayFail(0) :
            /\ trace' = Append(trace, Ev("fetch", "generateTransactionId",
                                         "https://id.chitty.cc/api/generate", fetchOk))
            /\ faults' = faults + (IF fetchOk THEN 0 ELSE 1)
     ELSE UNCHANGED << trace, faults >>
  /\ UNCHANGED << message, env, RATE_LIMITS, now, aiInsights, forwardTo,
                  workstream, headers, returnedAt, msgNo >>

\* part_001 lines 56-62: a domain without configuration is rejected
V2_DomainCheck ==
  /\ pc = "v2.domainConfig"
  /\ IF ~V2_domainConfigured(recipientDomain(message))
     THEN \E rejectOk \in MayFail(0) :
            /\ trace' = Append(trace, Ev("setReject", "domainConfig",
                                         "Domain not configured", rejectOk))
            /\ pc' = IF rejectOk THEN "done" ELSE "v2.catch"
            /\ returnedAt' = IF rejectOk THEN "unknownDomain" ELSE returnedAt
            /\ faults' = faults + (IF rejectOk THEN 0 ELSE 1)
     ELSE /\ pc' = "v2.checkRateLimit"
          /\ UNCHANGED << trace, returnedAt, faults >>
  /\ UNCHANGED << message, env, RATE_LIMITS, now, aiInsights, forwardTo,
                  workstream, headers, msgNo >>

\* the put of the v2 logAnalytics, made only with the binding and caught inside
V2_logged(e, action, f) ==
  IF e.EMAIL_ANALYTICS
  THEN { << Ev("put", "logAnalytics", action, ok) >> :
           ok \in (IF faults + f < MaxFaults THEN {TRUE, FALSE} ELSE {TRUE}) }
  ELSE { << >> }

V2_failed(events) == Cardinality({ i \in 1..Len(events) : ~events[i].ok })

\* part_001 lines 64-74; the v2 checkRateLimit has no try, so a throw of the
\* get reaches the handler's catch
V2_RateLimitCheck ==
  /\ pc = "v2.checkRateLimit"
  /\ IF ~env.RATE_LIMITS
     THEN /\ pc' = "v2.isSpam"
          /\ UNCHANGED << trace, returnedAt, faults >>
     ELSE \E getOk \in MayFail(0) :
            LET read == << Ev("get", "checkRateLimit", message.from, getOk) >>
                data == kvGet(RATE_LIMITS, now)
            IN  IF ~getOk
                THEN /\ trace' = trace \o read
                     /\ pc' = "v2.catch"
                     /\ faults' = faults + 1
                     /\ UNCHANGED returnedAt
                ELSE IF data.present /\ rateExceeded(data)
                THEN \E logged \in V2_logged(env, "rate_limited", 0) :
                     \E rejectOk \in MayFail(V2_failed(logged)) :
                       /\ trace' = trace \o read \o logged
                            \o << Ev("setReject", "rateLimit", RATE_REASON, rejectOk) >>
                       /\ pc' = IF rejectOk THEN "done" ELSE "v2.catch"
                       /\ returnedAt' = IF rejectOk THEN "rateLimited" ELSE returnedAt
                       /\ faults' = faults + V2_failed(logged) + (IF rejectOk THEN 0 ELSE 1)
                ELSE /\ trace' = trace \o read
                     /\ pc' = "v2.isSpam"
                     /\ UNCHANGED << returnedAt, faults >>
  /\ UNCHANGED << message, env, RATE_LIMITS, now, aiInsights, forwardTo,
                  workstream, headers, msgNo >>

\* part_001 lines 76-86
V2_SpamCheck ==
  /\ pc = "v2.isSpam"
  /\ IF isSpam(message)
     THEN \E logged \in V2_logged(env, "spam_blocked", 0) :
          \E rejectOk \in MayFail(V2_failed(logged)) :
            /\ trace' = trace \o logged
                 \o << Ev("setReject", "isSpam", SPAM_REASON, rejectOk) >>
            /\ pc' = IF rejectOk THEN "done" ELSE "v2.catch"
            /\ returnedAt' = IF rejectOk THEN "quickSpam" ELSE returnedAt
            /\ faults' = faults + V2_failed(logged) + (IF rejectOk THEN 0 ELSE 1)
     ELSE /\ pc' = "v2.forward"
          /\ UNCHANGED << trace, returnedAt, faults >>
  /\ UNCHANGED << message, env, RATE_LIMITS, now, aiInsights, forwardTo,
                  workstream, headers, msgNo >>

\* part_001 lines 88-150: forward address, headers, forward, analytics, webhook
V2_Forward ==
  /\ pc = "v2.forward"
  /\ LET local == recipientLocal(message)
         config == DOMAIN_CONFIG[recipientDomain(message)]
         address == IF local \in DOMAIN V2_specialRoutes
                    THEN V2_specialRoutes[local] ELSE config.defaultForward
         priority == checkPriority(message, local)
         hooked == config.enableWebhooks /\ priority /\ env.WEBHOOK_URL # ""
     IN  /\ forwardTo' = address
         /\ headers' = { << "X-Cloudflare-Worker", "chittyos-email-v2" >>,
                         << "X-Original-To", message.to >>,
                         << "X-Routed-Domain", recipientDomain(message) >> }
                       \cup (IF priority
                             THEN { << "X-Priority", "High" >>, << "Importance", "high" >> }
                             ELSE {})
         /\ \E forwardOk \in MayFail(0) :
              IF ~forwardOk
              THEN /\ trace' = Append(trace, Ev("forward", "direct", address, FALSE))
                   /\ pc' = "v2.catch"
                   /\ faults' = faults + 1
              ELSE \E logged \in (IF config.trackAnalytics
                                  THEN V2_logged(env, "forwarded", 0) ELSE { << >> }) :
                   \E hookOk \in (IF hooked THEN MayFail(V2_failed(logged)) ELSE {TRUE}) :
                     /\ trace' = trace \o << Ev("forward", "direct", address, TRUE) >>
                          \o logged
                          \o (IF hooked
                              THEN << Ev("fetch", "sendWebhook", "priority_email", hookOk) >>
                              ELSE << >>)
                     /\ pc' = "v2.updateRateLimit"
                     /\ faults' = faults + V2_failed(logged) + (IF hookOk THEN 0 ELSE 1)
  /\ UNCHANGED << message, env, RATE_LIMITS, now, aiInsights, workstream,
                  returnedAt, msgNo >>

\* part_001 lines 152-153 with the v2 updateRateLimit, which has no try: a
\* throw of its get or put reaches the handler's catch
V2_UpdateRateLimit ==
  /\ pc = "v2.updateRateLimit"
  /\ IF ~env.RATE_LIMITS
     THEN /\ pc' = "done"
          /\ returnedAt' = "forwarded"
          /\ UNCHANGED << RATE_LIMITS, trace, faults >>
     ELSE \E getOk \in MayFail(0) :
          \E putOk \in (IF getOk THEN MayFail(0) ELSE {TRUE}) :
            LET data == nextRateRecord(kvGet(RATE_LIMITS, now), now)
            IN  /\ trace' = trace \o << Ev("get", "updateRateLimit", message.from, getOk) >>
                     \o (IF getOk
                         THEN << Ev("put", "updateRateLimit", message.from, putOk) >>
                         ELSE << >>)
                /\ RATE_LIMITS' = IF getOk /\ putOk THEN kvPut(data, now) ELSE RATE_LIMITS
                /\ faults' = faults + (IF getOk /\ putOk THEN 0 ELSE 1)
                /\ pc' = IF getOk /\ putOk THEN "done" ELSE "v2.catch"
                /\ returnedAt' = IF getOk /\ putOk THEN "forwarded" ELSE returnedAt
  /\ UNCHANGED << message, env, now, aiInsights, forwardTo, workstream,
                  headers, msgNo >>

\* part_001 lines 154-163: the catch forwards to the hardcoded address once
V2_CatchFallback ==
  /\ pc = "v2.catch"
  /\ \E forwardOk \in MayFail(0) :
       /\ trace' = Append(trace, Ev("forward", "catchFallback", V2_FORWARD, forwardOk))
       /\ faults' = faults + (IF forwardOk THEN 0 ELSE 1)
  /\ pc' = "done"
  /\ returnedAt' = "caught"
  /\ UNCHANGED << message, env, RATE_LIMITS, now, aiInsights, forwardTo,
                  workstream, headers, msgNo >>

NextV2 ==
  \/ V2_GenerateTransactionId
  \/ V2_DomainCheck
  \/ V2_RateLimitCheck
  \/ V2_SpamCheck
  \/ V2_Forward
  \/ V2_UpdateRateLimit
  \/ V2_CatchFallback

SpecV2 == InitV2 /\ [][NextV2]_vars

(***************************************************************************)
(* The AI worker (src/email-worker-ai.js): classification first, then the  *)
(* auto-response, the tasks, the handling by category and the forward      *)
(***************************************************************************)
AIW_Categories ==
  {"invoice", "receipt", "contract", "legal", "support", "complaint", "meeting",
   "calendar", "newsletter", "marketing", "personal", "business",
   "api-notification", "security-alert", "spam", "general"}

AIW_classifyEmail(ai, response) ==
  IF ~ai \/ response = AIError THEN "general"
  ELSE IF trim(toLowerCase(response)) \in AIW_Categories
       THEN trim(toLowerCase(response)) ELSE "general"

AIW_analyzeSentiment(ai, response) ==
  IF ~ai \/ response = AIError THEN "neutral"
  ELSE IF trim(toLowerCase(response)) \in Sentiments
       THEN trim(toLowerCase(response)) ELSE "neutral"

detectIntent(ai, response) ==
  IF ~ai \/ response = AIError THEN "information" ELSE trim(toLowerCase(response))

AIW_checkUrgency(ai, subject, body, response) ==
  IF ~ai THEN "normal" ELSE checkUrgency(subject, body, response)

AIW_extractEntities(ai, response) ==
  IF ~ai THEN << >> ELSE extractEntities(response)

\* lines with more than five characters after trimming, at most three
extractActionItems(ai, response) ==
  IF ~ai \/ response = AIError THEN << >>
  ELSE LET lines == split(response, "\n")
           long == SelectSeq(lines, LAMBDA line : Len(trim(line)) > 5)
       IN  SubSeq(long, 1, IF Len(long) < 3 THEN Len(long) ELSE 3)

determineSmartRouting(local, classification, urgency, sentiment) ==
  IF local = "nick" THEN NICK_FORWARD
  ELSE IF local = "sharon" THEN SHARON_FORWARD
  ELSE IF urgency \in {"critical", "high"} THEN MGMT_FORWARD
  ELSE IF classification \in {"legal", "contract", "invoice", "security-alert"}
  THEN MGMT_FORWARD
  ELSE IF classification \in {"support", "complaint"}
  THEN (IF sentiment = "angry" THEN MGMT_FORWARD ELSE HARDCODED_DEFAULT)
  ELSE IF classification \in {"api-notification", "newsletter", "marketing"}
  THEN HARDCODED_DEFAULT
  ELSE IF local \in MgmtLocals THEN MGMT_FORWARD ELSE HARDCODED_DEFAULT

shouldAutoRespond(classification, intent, local) ==
  IF includes(local, "reply") THEN FALSE
  ELSE \/ classification \in {"support", "inquiry", "meeting"}
       \/ intent \in {"inquiry", "schedule-meeting", "request-action"}

\* standardRouting: the route table of the fallback
standardRouting(local) ==
  CASE local = "nick" -> NICK_FORWARD
    [] local = "sharon" -> SHARON_FORWARD
    [] local \in {"admin", "support", "legal", "security"} -> MGMT_FORWARD
    [] OTHER -> HARDCODED_DEFAULT

\* the store the handling by category writes to, Null when it writes nothing.
\* None of these handlers catches a failure of its put
AIW_specialStore(ai, e, local) ==
  CASE ai.classification \in {"invoice", "receipt"} ->
         IF e.FINANCIAL_EMAILS THEN "handleFinancialEmail" ELSE Null
    [] ai.classification \in {"legal", "contract"} ->
         IF e.LEGAL_EMAILS THEN "handleLegalEmail" ELSE Null
    [] ai.classification \in {"support", "complaint"} ->
         IF e.SUPPORT_TICKETS THEN "createSupportTicket" ELSE Null
    [] ai.classification \in {"meeting", "calendar"} ->
         IF /\ \E i \in 1..Len(ai.entities) : ai.entities[i].type \in {"date", "time"}
            /\ e.CALENDAR_EVENTS
         THEN "handleCalendarEmail" ELSE Null
    [] ai.classification \in {"newsletter", "marketing"} ->
         IF local \notin {"sharon", "nick"} /\ e.EMAIL_ARCHIVE
         THEN "archiveEmail" ELSE Null
    [] OTHER -> Null

AIW_Recipients ==
  {"nick@chitty.cc", "legal@chittychat.com", "random@chittychat.com",
   "no-reply@chitty.cc"}

AIW_Letters ==
  { << "alice@example.com", "Quarterly report", "Please see the attachment." >>,
    << "alice@example.com", "URGENT: reply ASAP", "The deadline is tomorrow." >> }

AIW_Messages ==
  { [from |-> l[1], to |-> r, subject |-> l[2], body |-> l[3]] :
      r \in AIW_Recipients, l \in AIW_Letters }

\* the storage bindings are sampled all bound or all unbound
AIW_Envs ==
  { [AI |-> ai, AUTO_RESPONSES |-> st, TASKS |-> st, FINANCIAL_EMAILS |-> st,
     LEGAL_EMAILS |-> st, SUPPORT_TICKETS |-> st, CALENDAR_EVENTS |-> st,
     EMAIL_ARCHIVE |-> st, EMAIL_ANALYTICS |-> st, AI_LEARNING |-> st,
     WEBHOOK_URL |-> hook] :
      ai \in BOOLEAN, st \in BOOLEAN, hook \in {"", WEBHOOK} }

AIW_CategoryResponses(e) ==
  IF e.AI THEN {" Legal\n", "invoice", "support", "meeting", "newsletter", "SPAM",
                AIError}
  ELSE {AIError}
AIW_SentimentResponses(e) == IF e.AI THEN {"Angry", AIError} ELSE {AIError}
AIW_IntentResponses(e) == IF e.AI THEN {"Inquiry", AIError} ELSE {AIError}
AIW_UrgencyResponses(e) == IF e.AI THEN {"CRITICAL", AIError} ELSE {AIError}
AIW_EntityResponses(e) ==
  IF e.AI THEN {"amount: $1,200\ndate:2024-03-01"} ELSE {AIError}
AIW_ActionResponses(e) ==
  IF e.AI THEN {"Call the client back\nok\nSend the signed copy", AIError}
  ELSE {AIError}

InitAIW ==
  \E m \in AIW_Messages, e \in AIW_Envs :
    /\ message = m
    /\ env = e
    /\ RATE_LIMITS = NoEntry
    /\ now = T0
    /\ pc = "aiw.analysis"
    /\ aiInsights = NoInsights
    /\ forwardTo = Null
    /\ workstream = Null
    /\ headers = {}
    /\ trace = << >>
    /\ returnedAt = Null
    /\ faults = 0
    /\ msgNo = 1

\* email-worker-ai.js lines 27-57: message.text(), the five analyses joined,
\* determineSmartRouting
AIW_Analysis ==
  /\ pc = "aiw.analysis"
  /\ \E textOk \in MayFail(0) :
       IF ~textOk
       THEN /\ trace' = Append(trace, Ev("text", "email", "", FALSE))
            /\ pc' = "aiw.catch"
            /\ faults' = faults + 1
            /\ UNCHANGED << aiInsights, forwardTo >>
       ELSE \E cr \in AIW_CategoryResponses(env), sr \in AIW_SentimentResponses(env),
               ir \in AIW_IntentResponses(env),
               ur \in (IF urgencyCallsAI(message.subject, message.body)
                       THEN AIW_UrgencyResponses(env) ELSE {AIError}),
               er \in AIW_EntityResponses(env) :
              LET insights ==
                    [classification |-> AIW_classifyEmail(env.AI, cr),
                     sentiment |-> AIW_analyzeSentiment(env.AI, sr),
                     intent |-> detectIntent(env.AI, ir),
                     urgency |-> AIW_checkUrgency(env.AI, message.subject,
                                                  message.body, ur),
                     entities |-> AIW_extractEntities(env.AI, er),
                     actionItems |-> << >>]
                  runs ==
                    IF ~env.AI THEN << >>
                    ELSE << Ev("ai.run", "classifyEmail", cr, cr # AIError),
                            Ev("ai.run", "analyzeSentiment", sr, sr # AIError),
                            Ev("ai.run", "detectIntent", ir, ir # AIError) >>
                         \o (IF urgencyCallsAI(message.subject, message.body)
                             THEN << Ev("ai.run", "checkUrgency", ur, ur # AIError) >>
                             ELSE << >>)
                         \o << Ev("ai.run", "extractEntities", er, er # AIError) >>
              IN  /\ aiInsights' = insights
                  /\ forwardTo' = determineSmartRouting(recipientLocal(message),
                                     insights.classification, insights.urgency,
                                     insights.sentiment)
                  /\ trace' = trace \o << Ev("text", "email", "", TRUE) >> \o runs
                  /\ pc' = "aiw.autoRespond"
                  /\ faults' = faults
  /\ UNCHANGED << message, env, RATE_LIMITS, now, workstream, headers,
                  returnedAt, msgNo >>

\* lines 59-68 with sendAutoResponse (467-492), whose put is not caught
AIW_AutoRespond ==
  /\ pc = "aiw.autoRespond"
  /\ IF /\ shouldAutoRespond(aiInsights.classification, aiInsights.intent,
                             recipientLocal(message))
        /\ env.AUTO_RESPONSES
     THEN \E putOk \in MayFail(0) :
            /\ trace' = Append(trace, Ev("put", "sendAutoResponse", message.from, putOk))
            /\ pc' = IF putOk THEN "aiw.tasks" ELSE "aiw.catch"
            /\ faults' = faults + (IF putOk THEN 0 ELSE 1)
     ELSE /\ pc' = "aiw.tasks"
          /\ UNCHANGED << trace, faults >>
  /\ UNCHANGED << message, env, RATE_LIMITS, now, aiInsights, forwardTo,
                  workstream, headers, returnedAt, msgNo >>

\* lines 70-74 with extractActionItems (364-389) and createTasks (495-512):
\* one put per action item, none of them caught; written is how many puts
\* returned before one threw
AIW_Tasks ==
  /\ pc = "aiw.tasks"
  /\ \E ar \in AIW_ActionResponses(env) :
       LET items == extractActionItems(env.AI, ar)
           run == IF env.AI
                  THEN << Ev("ai.run", "extractActionItems", ar, ar # AIError) >>
                  ELSE << >>
           puts == IF env.TASKS THEN Len(items) ELSE 0
       IN  /\ aiInsights' = [aiInsights EXCEPT !.actionItems = items]
           /\ \E written \in 0..puts :
                /\ (written < puts => faults < MaxFaults)
                /\ trace' = trace \o run
                     \o [i \in 1..written |-> Ev("put", "createTasks", items[i], TRUE)]
                     \o (IF written < puts
                         THEN << Ev("put", "createTasks", items[written + 1], FALSE) >>
                         ELSE << >>)
                /\ pc' = IF written < puts THEN "aiw.catch" ELSE "aiw.special"
                /\ faults' = faults + (IF written < puts THEN 1 ELSE 0)
  /\ UNCHANGED << message, env, RATE_LIMITS, now, forwardTo, workstream,
                  headers, returnedAt, msgNo >>

\* lines 76-118: the switch on the classification
AIW_Special ==
  /\ pc = "aiw.special"
  /\ LET local == recipientLocal(message)
         c == aiInsights.classification
         site == AIW_specialStore(aiInsights, env, local)
     IN  IF c = "spam"
         THEN \E rejectOk \in MayFail(0) :
                /\ trace' = Append(trace, Ev("setReject", "aiSpam", AI_SPAM_REASON, rejectOk))
                /\ pc' = IF rejectOk THEN "done" ELSE "aiw.catch"
                /\ returnedAt' = IF rejectOk THEN "aiSpam" ELSE returnedAt
                /\ faults' = faults + (IF rejectOk THEN 0 ELSE 1)
                /\ UNCHANGED forwardTo
         ELSE \E putOk \in (IF site # Null THEN MayFail(0) ELSE {TRUE}) :
                /\ trace' = trace \o (IF site # Null
                                      THEN << Ev("put", site, message.from, putOk) >>
                                      ELSE << >>)
                /\ faults' = faults + (IF putOk THEN 0 ELSE 1)
                /\ forwardTo' = IF putOk /\ c \in {"legal", "contract"}
                                THEN MGMT_FORWARD ELSE forwardTo
                /\ IF ~putOk
                   THEN pc' = "aiw.catch" /\ UNCHANGED returnedAt
                   ELSE IF c \in {"newsletter", "marketing"} /\ local \notin {"sharon", "nick"}
                   THEN pc' = "done" /\ returnedAt' = "archived"
                   ELSE pc' = "aiw.forward" /\ UNCHANGED returnedAt
  /\ UNCHANGED << message, env, RATE_LIMITS, now, aiInsights, workstream,
                  headers, msgNo >>

\* lines 120-177: headers, the urgent notification, message.forward(forwardTo),
\* then storeAIInsights and updateLearningModel, which catch their failures
AIW_Forward ==
  /\ pc = "aiw.forward"
  /\ LET urgent == aiInsights.urgency \in {"high", "critical"}
         notified == urgent /\ env.WEBHOOK_URL # ""
     IN  /\ headers' = { << "X-Cloudflare-Worker", "chittyos-email-ai" >>,
                         << "X-AI-Classification", aiInsights.classification >>,
                         << "X-AI-Sentiment", aiInsights.sentiment >>,
                         << "X-AI-Intent", aiInsights.intent >>,
                         << "X-AI-Urgency", aiInsights.urgency >> }
                       \cup (IF urgent
                             THEN { << "X-Priority", "High" >>, << "Importance", "high" >> }
                             ELSE {})
         /\ \E hookOk \in (IF notified THEN MayFail(0) ELSE {TRUE}) :
            \E forwardOk \in MayFail(IF hookOk THEN 0 ELSE 1) :
              LET f == (IF hookOk THEN 0 ELSE 1) + (IF forwardOk THEN 0 ELSE 1)
                  sent == trace
                    \o (IF notified
                        THEN << Ev("fetch", "sendUrgentNotification", "URGENT_EMAIL", hookOk) >>
                        ELSE << >>)
                    \o << Ev("forward", "direct", forwardTo, forwardOk) >>
              IN  IF ~forwardOk
                  THEN /\ trace' = sent
                       /\ pc' = "aiw.catch"
                       /\ faults' = faults + f
                       /\ UNCHANGED returnedAt
                  ELSE \E storeOk \in (IF env.EMAIL_ANALYTICS THEN MayFail(f) ELSE {TRUE}) :
                       \E learnOk \in (IF env.AI_LEARNING
                                       THEN MayFail(f + (IF storeOk THEN 0 ELSE 1))
                                       ELSE {TRUE}) :
                         /\ trace' = sent
                              \o (IF env.EMAIL_ANALYTICS
                                  THEN << Ev("put", "storeAIInsights", forwardTo, storeOk) >>
                                  ELSE << >>)
                              \o (IF env.AI_LEARNING
                                  THEN << Ev("get", "updateLearningModel", forwardTo, learnOk) >>
                                       \o (IF learnOk
                                           THEN << Ev("put", "updateLearningModel",
                                                      forwardTo, TRUE) >>
                                           ELSE << >>)
                                  ELSE << >>)
                         /\ pc' = "done"
                         /\ returnedAt' = "forwarded"
                         /\ faults' = faults + f + (IF storeOk THEN 0 ELSE 1)
                                        + (IF learnOk THEN 0 ELSE 1)
  /\ UNCHANGED << message, env, RATE_LIMITS, now, aiInsights, forwardTo,
                  workstream, msgNo >>

\* lines 179-183 with standardRouting (678-692): the catch forwards by the
\* fallback route table, outside any try: a throw of this forward leaves the
\* handler
AIW_Catch ==
  /\ pc = "aiw.catch"
  /\ \E forwardOk \in MayFail(0) :
       /\ trace' = Append(trace, Ev("forward", "standardRouting",
                                    standardRouting(recipientLocal(message)), forwardOk))
       /\ faults' = faults + (IF forwardOk THEN 0 ELSE 1)
       /\ returnedAt' = IF forwardOk THEN "caught" ELSE "thrown"
  /\ pc' = "done"
  /\ UNCHANGED << message, env, RATE_LIMITS, now, aiInsights, forwardTo,
                  workstream, headers, msgNo >>

NextAIW ==
  \/ AIW_Analysis
  \/ AIW_AutoRespond
  \/ AIW_Tasks
  \/ AIW_Special
  \/ AIW_Forward
  \/ AIW_Catch

SpecAIW == InitAIW /\ [][NextAIW]_vars

(***************************************************************************)
(* Both workers on messages to configured and unconfigured domains         *)
(***************************************************************************)
DomainRecipients ==
  {"random@unknown.example", "hello@unknown.example", "random@chittychat.com"}

InitDomains ==
  \/ \E r \in DomainRecipients, l \in Letters, e \in RoutingEnvs :
       StartOf([from |-> l[1], to |-> r, subject |-> l[2], body |-> l[3]],
               e, NoEntry, T0, 1, 0)
  \/ InitV2

NextDomains ==
  \/ RateLimitCheck
  \/ QuickSpamCheck
  \/ AIProcessing
  \/ RecipientRouting
  \/ AISmartRouting
  \/ SendToEvidenceRouter
  \/ ForwardEmail
  \/ UpdateRateLimit
  \/ CatchFallback
  \/ V2_GenerateTransactionId
  \/ V2_DomainCheck
  \/ V2_RateLimitCheck
  \/ V2_SpamCheck
  \/ V2_Forward
  \/ V2_UpdateRateLimit
  \/ V2_CatchFallback

SpecDomains == InitDomains /\ [][NextDomains]_vars

(***************************************************************************)
(* What an invocation has done so far, read off the trace                  *)
(***************************************************************************)
Events(op) == { i \in 1..Len(trace) : trace[i].op = op }
Done == pc = "done"
ForwardCalls == Events("forward")
DirectForwards == { i \in ForwardCalls : trace[i].site = "direct" }
DispatchCalls == Events("sendToEvidenceRouter")
RejectCalls == Events("setReject")
Posts ==
  { i \in Events("fetch") : trace[i].site \in {"litigation", "finance", "compliance"} }
AIRuns == Events("ai.run")

ForwardedTo(a) == \E i \in ForwardCalls : trace[i].ok /\ trace[i].arg = a
Forwarded == \E i \in ForwardCalls : trace[i].ok
Rejected == \E i \in RejectCalls : trace[i].ok
Dispatched == \E i \in Posts : trace[i].ok
Discarded == Done /\ returnedAt = "discard"
FallbackFailed ==
  \E i \in ForwardCalls : trace[i].site = "catchFallback" /\ ~trace[i].ok

\* the terminal outcomes the message has had
Outcomes ==
  (IF Forwarded THEN {"forward"} ELSE {}) \cup (IF Rejected THEN {"reject"} ELSE {})
  \cup (IF Dispatched THEN {"dispatch"} ELSE {})
  \cup (IF Discarded THEN {"discard"} ELSE {})

(***************************************************************************)
(* Claims                                                                  *)
(***************************************************************************)
\* how many stages the handler still has before it, at most
StagesLeft(p) ==
  CASE p = "checkRateLimit" -> 8 [] p = "isSpamQuick" -> 7 [] p = "ai" -> 6
    [] p = "route" -> 5 [] p = "aiRouting" -> 4 [] p = "sendToEvidenceRouter" -> 3
    [] p = "forward" -> 3 [] p = "updateRateLimit" -> 2 [] p = "catch" -> 1
    [] OTHER -> 0

\* C1: an invocation has at most one routing outcome, and exactly one once it
\* has ended unless the catch's fallback forward itself failed; it never both
\* calls sendToEvidenceRouter and takes the direct forward of line 398, and it
\* calls sendToEvidenceRouter at most once.
C1_OneRoutingDecision ==
  /\ Cardinality(Outcomes) <= 1
  /\ Cardinality(DispatchCalls) <= 1
  /\ ~(DispatchCalls # {} /\ DirectForwards # {})
  /\ (Done /\ ~FallbackFailed => Cardinality(Outcomes) = 1)

C1_Witness == Done /\ Dispatched /\ returnedAt = "dispatch"

\* a call has thrown that no inner try catches
ErrorRaised ==
  \E i \in 1..Len(trace) :
    /\ ~trace[i].ok
    /\ \/ trace[i].op = "setReject" /\ trace[i].site \in {"rateLimit", "quickSpam"}
       \/ trace[i].op = "forward" /\ trace[i].site \in {"direct", "dispatchFallback"}

\* C2: every invocation ends (every step leaves fewer stages to run), and it
\* ends with the message forwarded, discarded, dispatched or rejected unless
\* the fallback forward failed; an error that no inner try catches reaches the
\* handler's catch, and when the fallback forward then succeeds the message
\* was forwarded to no-reply@itcan.llc.
C2_TerminalOutcome ==
  /\ [][StagesLeft(pc') < StagesLeft(pc)]_vars
  /\ [](Done => (Outcomes # {} \/ FallbackFailed))
  /\ [](ErrorRaised => (pc = "catch" \/ returnedAt = "caught"))
  /\ [](Done /\ returnedAt = "caught" /\ ~FallbackFailed
          => ForwardedTo("no-reply@itcan.llc"))

C2_Witness ==
  /\ Done
  /\ returnedAt = "caught"
  /\ ForwardedTo("no-reply@itcan.llc")
  /\ \E i \in DirectForwards : ~trace[i].ok

\* C3 (as claimed): with one sender's messages handled one after another and
\* all within the window, exactly the messages from the 51st on are rejected
\* with the rate-limit reason.
C3_Rejects51st ==
  Done => ((msgNo >= 51) <=> (returnedAt = "rateLimited" /\ Rejected))

\* what the handler does instead: the 51st is forwarded, the 52nd is the
\* first to be rejected
C3_Rejects52nd ==
  Done => ((msgNo >= 52) <=> (returnedAt = "rateLimited" /\ Rejected))

Local == recipientLocal(message)
NoReplyRecipient == includes(Local, "noreply") \/ includes(Local, "no-reply")
SpamSubject ==
  \E keyword \in spamKeywords : includes(toLowerCase(message.subject), keyword)
NoTerminalCall == ForwardCalls = {} /\ RejectCalls = {} /\ DispatchCalls = {}

\* C4 (as claimed): a message to a no-reply recipient always ends discarded,
\* with no forward, reject or dispatch.
C4_AlwaysDiscarded ==
  Done /\ NoReplyRecipient => returnedAt = "discard" /\ NoTerminalCall

\* C4 (amended): a message to a no-reply recipient is never dispatched and
\* never takes the direct forward, and it ends discarded with no forward,
\* reject or dispatch whenever no earlier stage (rate limit, quick spam, AI
\* spam) has called setReject.
C4_DiscardedUnlessRejected ==
  NoReplyRecipient =>
    /\ DispatchCalls = {}
    /\ DirectForwards = {}
    /\ (Done /\ RejectCalls = {} => returnedAt = "discard" /\ NoTerminalCall)

C4_Witness ==
  /\ Done
  /\ Local = "billing-no-reply"
  /\ aiInsights.classification = "legal"
  /\ returnedAt = "discard"
  /\ NoTerminalCall

\* C5 (as claimed): a message with a spam keyword in its subject always ends
\* rejected with the spam reason, with no ai.run call.
C5_AlwaysSpamReject ==
  Done /\ SpamSubject =>
    /\ \E i \in RejectCalls : trace[i].ok /\ trace[i].arg = "Message classified as spam"
    /\ AIRuns = {}

\* checkRateLimit found the sender over the limit
C5_OverLimit ==
  /\ env.RATE_LIMITS
  /\ RATE_LIMITS.present /\ RATE_LIMITS.count > 50 /\ now < RATE_LIMITS.expiresAt
  /\ \A i \in Events("get") : trace[i].ok

\* C5 (amended): for a message with a spam keyword in its subject no ai.run
\* call, no dispatch and no direct forward is ever made; the handler calls
\* setReject exactly once, with the spam reason unless the sender is over the
\* rate limit and then with the rate-limit reason, and when that call does not
\* throw the message ends rejected and never forwarded.
C5_RejectBeforeAI ==
  SpamSubject =>
    /\ AIRuns = {}
    /\ DispatchCalls = {}
    /\ DirectForwards = {}
    /\ (Done =>
          /\ Cardinality(RejectCalls) = 1
          /\ \A i \in RejectCalls :
               /\ trace[i].arg = (IF C5_OverLimit
                                  THEN "Rate limit exceeded - please try again later"
                                  ELSE "Message classified as spam")
               /\ (trace[i].ok => Outcomes = {"reject"} /\ ForwardCalls = {}))

C5_Witness ==
  /\ Done
  /\ env.AI
  /\ message.subject = "You Have WON the Lottery"
  /\ \E i \in RejectCalls : trace[i].ok /\ trace[i].arg = "Message classified as spam"
  /\ AIRuns = {}

\* C6: when a dispatch has failed (message.raw() threw, no router URL, fetch
\* threw or the status was not a success), the handler has called
\* message.forward("mgmt@aribia.llc") next; when that call does not throw it is
\* the only forward and the handler returns; when it throws the error reaches
\* the handler's catch, so a failed dispatch ends with the message forwarded
\* unless the fallback forward failed too.
C6_DispatchFailureForwardsToMgmt ==
  DispatchCalls # {} /\ ~Dispatched =>
    /\ \E i \in ForwardCalls :
         /\ trace[i].site = "dispatchFallback"
         /\ trace[i].arg = "mgmt@aribia.llc"
         /\ \A d \in DispatchCalls : d < i
         /\ \A j \in ForwardCalls : j >= i
         /\ (trace[i].ok => Done /\ ForwardCalls = {i} /\ Outcomes = {"forward"})
         /\ (~trace[i].ok => pc = "catch" \/ returnedAt = "caught")
    /\ (Done => Forwarded \/ FallbackFailed)

C6_Witness ==
  /\ Done
  /\ \E i \in Posts : ~trace[i].ok /\ trace[i].site = "finance"
  /\ ~Dispatched
  /\ ForwardedTo("mgmt@aribia.llc")

\* the endpoint configured for a workstream
C7_Endpoint(ws) ==
  CASE ws = "litigation" -> env.EVIDENCE_ROUTER_URL
    [] ws = "finance" -> env.FINANCE_ROUTER_URL
    [] OTHER -> env.COMPLIANCE_ROUTER_URL

\* C7 (as claimed): every POST of a dispatch goes to the endpoint configured
\* for its workstream, and a compliance dispatch whose message.raw() did not
\* throw issues its POST whether or not EVIDENCE_ROUTER_URL is configured.
C7_PostsToOwnEndpoint ==
  /\ \A i \in Posts : trace[i].arg = C7_Endpoint(trace[i].site)
  /\ \A d \in DispatchCalls :
       trace[d].site = "compliance" /\ trace[d + 1].ok => d + 2 \in Posts

\* the recipient local-part is in the static route table with a forward address
InRouteTable ==
  /\ ~NoReplyRecipient
  /\ Local \notin LitigationLocals \cup FinanceLocals \cup ComplianceLocals
  /\ Local \in DOMAIN specialRoutes(env)
MappedAddress == specialRoutes(env)[Local]
CleanRun == Done /\ faults = 0 /\ RejectCalls = {}

\* C8 (as claimed): a recipient of the static route table is forwarded to its
\* mapped address whatever the classification, and never dispatched.
C8_RouteTableWins ==
  CleanRun /\ InRouteTable => ForwardedTo(MappedAddress) /\ DispatchCalls = {}

\* the classification sends the message to management
C8_ToManagement ==
  \/ aiInsights.classification \in {"legal", "contract"}
  \/ aiInsights.classification = "complaint" /\ aiInsights.sentiment = "angry"
  \/ aiInsights.urgency \in {"critical", "high"} /\ Local \notin {"nick", "sharon"}

\* the classification sends the message to a configured workstream
C8_ToWorkstream ==
  \/ aiInsights.classification \in {"legal", "contract"} /\ env.EVIDENCE_ROUTER_URL # ""
  \/ aiInsights.classification \in {"invoice", "receipt"} /\ env.FINANCE_ROUTER_URL # ""
  \/ /\ aiInsights.classification \in {"compliance", "audit", "regulatory", "governance"}
     /\ env.COMPLIANCE_ROUTER_URL # ""

\* C8 (amended): a recipient of the static route table is forwarded to its
\* mapped address unless the classification overrides it: legal or contract,
\* an angry complaint, or critical or high urgency for a local-part other than
\* nick and sharon make the destination mgmt@aribia.llc, and legal, contract,
\* invoice, receipt or a compliance category with the workstream's endpoint
\* configured turn the forward into a dispatch.  Without a classification the
\* mapped address is always used.
C8_RouteTableUnlessOverridden ==
  InRouteTable =>
    /\ \A i \in DirectForwards :
         trace[i].arg = (IF C8_ToManagement THEN "mgmt@aribia.llc" ELSE MappedAddress)
    /\ (DispatchCalls # {} => C8_ToWorkstream)
    /\ (CleanRun => IF C8_ToWorkstream THEN Dispatched \/ ForwardedTo("mgmt@aribia.llc")
                    ELSE IF C8_ToManagement THEN ForwardedTo("mgmt@aribia.llc")
                    ELSE ForwardedTo(MappedAddress))
    /\ (CleanRun /\ aiInsights = NoInsights => ForwardedTo(MappedAddress))

C8_Witness ==
  /\ CleanRun
  /\ Local = "nick"
  /\ aiInsights.urgency = "critical"
  /\ aiInsights.classification = "complaint"
  /\ ForwardedTo("nick@jeanarlene.com")

\* the recipient rules 1-3 neither discard nor dispatch the message
C9_ReachesOverride ==
  ~NoReplyRecipient /\ Local \notin LitigationLocals \cup FinanceLocals \cup ComplianceLocals

\* C9 (as claimed): with critical or high urgency and a local-part other than
\* nick and sharon the message is forwarded to management and no finance or
\* compliance dispatch is made, also for the invoice, receipt and compliance
\* categories with their endpoint configured.
C9_UrgencyBeforeWorkstreams ==
  /\ CleanRun
  /\ C9_ReachesOverride
  /\ aiInsights.urgency \in {"critical", "high"}
  /\ Local \notin {"nick", "sharon"}
  /\ aiInsights.classification \in
       {"invoice", "receipt", "compliance", "audit", "regulatory", "governance"}
  => ForwardedTo("mgmt@aribia.llc") /\ DispatchCalls = {}

\* the recipient is in a workstream trigger set whose endpoint is not configured
C10_TriggerUnconfigured ==
  \/ Local \in LitigationLocals /\ env.EVIDENCE_ROUTER_URL = ""
  \/ Local \in FinanceLocals /\ env.FINANCE_ROUTER_URL = ""
  \/ Local \in ComplianceLocals /\ env.COMPLIANCE_ROUTER_URL = ""

\* C10 (as claimed): a recipient of a workstream trigger set whose endpoint is
\* not configured is forwarded to mgmt@aribia.llc, whatever the classification
\* and the other endpoints.
C10_FallbackToManagement ==
  CleanRun /\ C10_TriggerUnconfigured =>
    ForwardedTo("mgmt@aribia.llc") /\ DispatchCalls = {}

\* the recipient is in the finance trigger set and the finance endpoint is set
C11_FinanceTrigger == Local \in FinanceLocals /\ env.FINANCE_ROUTER_URL # ""

\* C11 (as claimed): a message to a finance trigger recipient, with the finance
\* endpoint configured and no spam verdict (neither the quick filter nor the
\* classification), always ends dispatched to the finance workstream, with no
\* direct forward, and with no forward at all when the POST succeeded.
C11_AlwaysDispatched ==
  Done /\ C11_FinanceTrigger /\ ~isSpamQuick(message)
       /\ aiInsights.classification # "spam" =>
    /\ \E d \in DispatchCalls : trace[d].site = "finance"
    /\ DirectForwards = {}
    /\ (Dispatched => ForwardCalls = {})

\* C11 (amended): for a finance trigger recipient with the finance endpoint
\* configured the direct forward is never taken, every dispatch is a finance
\* dispatch whose POST goes to the finance endpoint, a successful POST leaves
\* message.forward uncalled, and the dispatch is made whenever no earlier stage
\* (rate limit, quick spam, AI spam) has called setReject; the POST is issued
\* whenever message.raw() did not throw.
C11_FinanceDispatch ==
  C11_FinanceTrigger =>
    /\ DirectForwards = {}
    /\ \A d \in DispatchCalls : trace[d].site = "finance"
    /\ \A i \in Posts : trace[i].arg = env.FINANCE_ROUTER_URL
    /\ (Dispatched => ForwardCalls = {})
    /\ (Done /\ RejectCalls = {} =>
          /\ DispatchCalls # {}
          /\ \A d \in DispatchCalls : trace[d + 1].ok => d + 2 \in Posts)

C11_Witness ==
  /\ Done
  /\ Local = "invoice"
  /\ aiInsights.classification = "invoice"
  /\ Dispatched
  /\ \E i \in Posts : trace[i].arg = "https://finance.example/intake"
  /\ ForwardCalls = {}

\* the routing outcome an invocation has taken, by its calls: the reject with
\* its reason, the dispatch with its workstream, the direct forward with its
\* address, or the discard
RoutingTaken ==
  IF RejectCalls # {}
  THEN << "reject", trace[CHOOSE i \in RejectCalls : TRUE].arg >>
  ELSE IF DispatchCalls # {}
  THEN << "dispatch", trace[CHOOSE i \in DispatchCalls : TRUE].site >>
  ELSE IF DirectForwards # {}
  THEN << "forward", trace[CHOOSE i \in DirectForwards : TRUE].arg >>
  ELSE << "discard", "" >>

\* the routing outcome as a function of the recipient local-part, the two
\* filters' verdicts, the bindings and the classification; neither the
\* recipient domain nor the sender allowlist is among its arguments
Resolve(local, limited, spam, e, ai) ==
  IF limited THEN << "reject", "Rate limit exceeded - please try again later" >>
  ELSE IF spam THEN << "reject", "Message classified as spam" >>
  ELSE IF ai.classification = "spam"
  THEN << "reject", "Message classified as spam by AI" >>
  ELSE LET r == recipientRoute(local, e)
           o == aiOverride(ai, local, r.forwardTo, e)
           sc == specialClassification(ai, e)
       IN  CASE r.action = "discard" -> << "discard", "" >>
             [] r.action = "dispatch" -> << "dispatch", r.workstream >>
             [] OTHER ->
                  IF ai = NoInsights THEN << "forward", r.forwardTo >>
                  ELSE IF o.action = "dispatch" THEN << "dispatch", o.workstream >>
                  ELSE IF sc.action = "dispatch" THEN << "dispatch", sc.workstream >>
                  ELSE << "forward", o.forwardTo >>

\* checkRateLimit read a stored record with a count above the threshold
RateLimited ==
  /\ env.RATE_LIMITS
  /\ trace # << >> /\ trace[1].ok
  /\ RATE_LIMITS.present /\ RATE_LIMITS.count > 50 /\ now < RATE_LIMITS.expiresAt

DomainFlagged ==
  /\ recipientDomain(message) \in DOMAIN KNOWN_DOMAINS
  /\ KNOWN_DOMAINS[recipientDomain(message)].priority
TrustedSender ==
  \E sender \in {"@cloudflare.com", "@google.com", "@github.com", "@stripe.com",
                 "@openai.com", "@anthropic.com"} :
    includes(toLowerCase(message.from), sender)

\* C12: the routing outcome of every ended invocation is the value of Resolve,
\* a function that reads neither the recipient domain's priority flag nor the
\* sender allowlist: two invocations that differ only in these have the same
\* outcome (same reject, discard, dispatch or forward address), with or
\* without the priority headers.
C12_PriorityDoesNotRoute ==
  Done =>
    RoutingTaken = Resolve(Local, RateLimited, isSpamQuick(message), env, aiInsights)

C12_Witness ==
  /\ Done
  /\ TrustedSender /\ ~DomainFlagged
  /\ Local = "random"
  /\ aiInsights = NoInsights
  /\ << "X-Priority", "High" >> \in headers
  /\ RoutingTaken = << "forward", "no-reply@itcan.llc" >>
  /\ ForwardedTo("no-reply@itcan.llc")

\* the four conditions of the priority flag
C13_Priority ==
  \/ DomainFlagged
  \/ Local \in {"legal", "security", "abuse"}
  \/ TrustedSender
  \/ aiInsights.urgency \in {"high", "critical"}

\* C13: once the handler is on the direct-forward path (the headers are set
\* and message.forward(forwardTo) called), X-Priority: High and Importance:
\* high are both set if the domain is flagged priority, or the local-part is
\* legal, security or abuse, or the sender matches the allowlist, or the
\* urgency is high or critical, and neither is set otherwise.
C13_PriorityHeaders ==
  DirectForwards # {} =>
    /\ (<< "X-Priority", "High" >> \in headers <=> C13_Priority)
    /\ (<< "Importance", "high" >> \in headers <=> C13_Priority)

C13_Witness ==
  /\ Done
  /\ message.from = "Bot@GitHub.com"
  /\ ~DomainFlagged /\ Local = "random"
  /\ aiInsights.urgency = "normal"
  /\ DirectForwards # {}
  /\ << "X-Priority", "High" >> \in headers
  /\ << "Importance", "high" >> \in headers

\* the calls of the recorder and notifier functions
RecorderCalls ==
  { i \in 1..Len(trace) :
      trace[i].site \in {"storeAIInsights", "handleFinancialEmail", "logAnalytics",
                         "sendWebhook"} }

\* C15: a failed put or fetch of storeAIInsights, handleFinancialEmail,
\* logAnalytics or sendWebhook never takes the handler to its catch (the next
\* call is never the fallback forward), and an invocation in which only such
\* calls have failed ends with no fallback forward and with the routing
\* outcome it has when they succeed: the value of Resolve, which does not read
\* their results, and for a forward the one forward to the resolved address.
C15_RecorderFailuresSwallowed ==
  /\ \A i \in RecorderCalls :
       ~trace[i].ok =>
         /\ (i = Len(trace) => pc # "catch")
         /\ (i < Len(trace) => trace[i + 1].site # "catchFallback")
  /\ ((\A i \in 1..Len(trace) : ~trace[i].ok => i \in RecorderCalls) =>
        /\ pc # "catch" /\ returnedAt # "caught"
        /\ (Done =>
              /\ RoutingTaken =
                   Resolve(Local, RateLimited, isSpamQuick(message), env, aiInsights)
              /\ (RoutingTaken[1] = "forward" =>
                    ForwardedTo(RoutingTaken[2]) /\ Cardinality(ForwardCalls) = 1)))

C15_Witness ==
  /\ Done
  /\ \E i \in RecorderCalls : trace[i].site = "logAnalytics" /\ ~trace[i].ok
  /\ \E i \in RecorderCalls : trace[i].site = "sendWebhook" /\ ~trace[i].ok
  /\ returnedAt = "forwarded"
  /\ ForwardedTo("mgmt@aribia.llc")
  /\ Cardinality(ForwardCalls) = 1

\* the analytics records written: storeAIInsights and logAnalytics, each with
\* the forwardedTo it carries
RecordWrites ==
  { i \in 1..Len(trace) : trace[i].site \in {"storeAIInsights", "logAnalytics"} }

\* C16 (as claimed): in a run with no failing call, no workstream dispatch is
\* decided after an analytics record has been written, and the destination
\* written in every record is the address the message was forwarded to.
C16_DecisionBeforeRecords ==
  faults = 0 =>
    \A i \in RecordWrites :
      /\ \A d \in DispatchCalls : d < i
      /\ (Done => ForwardedTo(trace[i].arg))

\* C17 (as claimed): message.forward is invoked at most once, message.setReject
\* at most once, and never both in one invocation.
C17_OneTerminalCall ==
  /\ Cardinality(ForwardCalls) <= 1
  /\ Cardinality(RejectCalls) <= 1
  /\ ~(ForwardCalls # {} /\ RejectCalls # {})

\* C17 (amended): at most one call of message.forward or message.setReject
\* returns without throwing; a further terminal call is made only after every
\* earlier one threw; setReject is invoked at most once and forward at most
\* twice, the second time only as the catch's fallback forward.
C17_OneTerminalSuccess ==
  /\ Cardinality({ i \in ForwardCalls \cup RejectCalls : trace[i].ok }) <= 1
  /\ \A i, j \in ForwardCalls \cup RejectCalls : i < j => ~trace[i].ok
  /\ Cardinality(RejectCalls) <= 1
  /\ Cardinality(ForwardCalls) <= 2
  /\ \A i, j \in ForwardCalls : i < j => trace[j].site = "catchFallback"

C17_Witness ==
  /\ Done
  /\ \E i \in RejectCalls : ~trace[i].ok /\ trace[i].site = "rateLimit"
  /\ ForwardedTo("no-reply@itcan.llc")
  /\ Cardinality(ForwardCalls) = 1

\* the record stored for the sender is readable: written and not yet expired
RecordStored == RATE_LIMITS.present /\ now < RATE_LIMITS.expiresAt

\* the rate check of this invocation has just returned: nothing but its get
\* and its reject has been done, and the store is as the check read it
CheckReturned ==
  \/ pc = "isSpamQuick"
  \/ Done /\ returnedAt = "rateLimited"

\* C19 (as claimed): the rate check returns false with no stored record,
\* count > 50 with a stored record whose window started at most 3600 s ago,
\* and false with a stored record whose window started more than 3600 s ago,
\* whatever its count.
C19_WindowChecked ==
  CheckReturned =>
    ((RejectCalls # {}) <=>
       /\ RecordStored
       /\ now - RATE_LIMITS.window <= 3600000
       /\ RATE_LIMITS.count > 50)

\* C20: every updateRateLimit writes, with a TTL of 3600 s, the record
\* {count: 1, window: now} when no record is stored or the stored window
\* started more than 3600 s ago, and otherwise the stored record with its
\* count raised by exactly 1 and its window unchanged.
C20_RecordSend ==
  [][pc = "updateRateLimit" =>
       /\ RATE_LIMITS'.present
       /\ RATE_LIMITS'.expiresAt = now + 3600 * 1000
       /\ IF ~RecordStored \/ now - RATE_LIMITS.window > 3600000
          THEN RATE_LIMITS'.count = 1 /\ RATE_LIMITS'.window = now
          ELSE /\ RATE_LIMITS'.count = RATE_LIMITS.count + 1
               /\ RATE_LIMITS'.window = RATE_LIMITS.window]_vars

\* the fourth message arrives 75 minutes after the first, 25 minutes after the
\* third: the record is still stored, its window has run out
C20_Witness ==
  /\ Done
  /\ msgNo = 4
  /\ now = T0 + 3 * LONG_STEP_MS
  /\ RATE_LIMITS.count = 1
  /\ RATE_LIMITS.window = now
  /\ RATE_LIMITS.expiresAt = now + 3600000

\* the invocation is one of the v2 worker, which has no global default address
IsV2 == "CHITTY_API_KEY" \in DOMAIN env

\* the rejects for an unconfigured domain
DomainRejects ==
  { i \in RejectCalls : toLowerCase(trace[i].arg) = "domain not configured" }

\* rule 5 applies: no earlier rule matches the recipient or the classification
Rule5Applies ==
  /\ ~NoReplyRecipient
  /\ Local \notin LitigationLocals \cup FinanceLocals \cup ComplianceLocals
  /\ Local \notin DOMAIN specialRoutes(env)
  /\ ~C8_ToManagement /\ ~C8_ToWorkstream

\* C14: in the v2 worker, which has no global default address, a message to a
\* domain without configuration is rejected for that reason before anything
\* else is done with it, and when the reject does not throw the message is not
\* forwarded; no message to a configured domain is rejected for that reason.
\* In the worker with a global default (env.DEFAULT_FORWARD or
\* no-reply@itcan.llc) no message is rejected for that reason, and a message to
\* a domain outside KNOWN_DOMAINS to which rule 5 applies is forwarded to the
\* global default.
C14_UnconfiguredDomain ==
  IF IsV2
  THEN IF recipientDomain(message) \in DOMAIN DOMAIN_CONFIG
       THEN DomainRejects = {}
       ELSE pc \notin {"v2.generateTransactionId", "v2.domainConfig"} =>
              /\ \E i \in DomainRejects : \A j \in RejectCalls \cup ForwardCalls : i <= j
              /\ Events("get") = {} /\ Events("put") = {} /\ DirectForwards = {}
              /\ \A i \in DomainRejects :
                   trace[i].ok => Done /\ Outcomes = {"reject"} /\ ForwardCalls = {}
  ELSE /\ DomainRejects = {}
       /\ (/\ recipientDomain(message) \notin DOMAIN KNOWN_DOMAINS
           /\ Rule5Applies /\ CleanRun
           => ForwardedTo(IF env.DEFAULT_FORWARD # "" THEN env.DEFAULT_FORWARD
                          ELSE "no-reply@itcan.llc"))

C14_Witness ==
  /\ Done
  /\ IsV2
  /\ message.to = "Legal@Unknown.Example"
  /\ \E i \in DomainRejects : trace[i].ok
  /\ returnedAt = "unknownDomain"
  /\ ForwardCalls = {}

FallbackForwards ==
  { i \in ForwardCalls : trace[i].site \in {"catchFallback", "standardRouting"} }

\* C18: when the fallback forward of the handler's catch fails, it is the only
\* fallback forward, no forward or reject is attempted after it, and the
\* handler returns instead of throwing
C18_FallbackFailureOnlyRecorded ==
  \A i \in FallbackForwards :
    ~trace[i].ok =>
      /\ Cardinality(FallbackForwards) = 1
      /\ \A j \in ForwardCalls \cup RejectCalls : j <= i
      /\ returnedAt # "thrown"

SpamRejects ==
  { i \in RejectCalls : trace[i].site \in {"quickSpam", "aiSpam"} /\ trace[i].ok }

\* C21: once a spam heuristic (the keyword and sender patterns of isSpamQuick,
\* or the AI category spam) has rejected the message, the invocation is over:
\* the reject is its last external call, and it has done no routing
\* (forwardTo and the workstream are unset, no header is set), no dispatch,
\* no forward, no analytics, webhook or other fetch, and no key-value write;
\* the only calls before the reject are the rate-limit read, message.text()
\* and the ai.run calls.
C21_SpamRejectShortCircuits ==
  \A i \in SpamRejects :
    /\ i = Len(trace)
    /\ pc = "done"
    /\ returnedAt = trace[i].site
    /\ forwardTo = Null /\ workstream = Null /\ headers = {}
    /\ ForwardCalls = {} /\ DispatchCalls = {}
    /\ Events("put") = {} /\ Events("fetch") = {}
    /\ \A j \in 1..(i - 1) : trace[j].op \in {"get", "text", "ai.run"}

C21_Witness ==
  /\ Done
  /\ env.EMAIL_ANALYTICS /\ env.RATE_LIMITS /\ env.WEBHOOK_URL # ""
  /\ \E i \in SpamRejects : trace[i].site = "aiSpam"
  /\ Local = "admin"

\* every call of the inference capability in this invocation has failed
AllInferenceFailed ==
  /\ aiInsights # NoInsights
  /\ AIRuns # {}
  /\ \A i \in AIRuns : ~trace[i].ok

\* C22: when every call of the inference capability fails, the classification
\* is category general, sentiment neutral, no entities, and urgency high when
\* subject + " " + body contains an urgency keyword and normal otherwise: it
\* is a function of the subject and the body alone, so two runs on the same
\* subject and body agree.
C22_DeterministicFallback ==
  AllInferenceFailed =>
    aiInsights =
      [classification |-> "general",
       sentiment |-> "neutral",
       urgency |-> IF \E keyword \in urgentKeywords :
                        includes(toLowerCase(message.subject \o " " \o message.body),
                                 keyword)
                   THEN "high" ELSE "normal",
       entities |-> << >>]

C22_Witness ==
  /\ AllInferenceFailed
  /\ message.subject = "URGENT: reply ASAP"
  /\ aiInsights.urgency = "high"
  /\ Cardinality(AIRuns) = 4

\* the call of the inference capability, of the key-value store, of a webhook
\* or of a workstream endpoint at position i failed
ServiceFailure(i) ==
  /\ trace[i].op \in {"ai.run", "get", "put", "fetch", "raw"}
  /\ ~trace[i].ok

\* C23: message.setReject is called at three places only, each for a policy
\* verdict that a successful call produced: the rate-limit reject after a
\* key-value read that returned a count above the threshold, the spam reject
\* for a message the keyword and sender patterns match, and the AI spam reject
\* after a classification call that returned the category spam.  A failed
\* call of the inference capability, of the key-value store, of a webhook or
\* of a workstream endpoint is never what a reject rests on, and no reject
\* follows a failed dispatch, webhook or key-value write.
C23_RejectOnlyByPolicy ==
  \A i \in RejectCalls :
    /\ \/ /\ trace[i].site = "rateLimit"
          /\ trace[i].arg = "Rate limit exceeded - please try again later"
          /\ i = 2
          /\ trace[1].op = "get" /\ trace[1].ok
          /\ RATE_LIMITS.present /\ RATE_LIMITS.count > 50
       \/ /\ trace[i].site = "quickSpam"
          /\ trace[i].arg = "Message classified as spam"
          /\ isSpamQuick(message)
       \/ /\ trace[i].site = "aiSpam"
          /\ trace[i].arg = "Message classified as spam by AI"
          /\ \E j \in AIRuns :
               /\ j < i
               /\ trace[j].site = "classifyEmail"
               /\ trace[j].ok
               /\ trim(toLowerCase(trace[j].arg)) = "spam"
    /\ \A j \in 1..(i - 1) :
         ServiceFailure(j) =>
           /\ trace[j].op \in {"ai.run", "get"}
           /\ trace[j].site \in {"checkRateLimit", "analyzeSentiment",
                                 "checkUrgency", "extractEntities"}
           /\ trace[i].site # "rateLimit"

\* a sender over the limit whose record could not be read, and a message
\* whose classification call failed: neither is rejected
C23_Witness ==
  /\ Done
  /\ RATE_LIMITS.present /\ RATE_LIMITS.count > 50
  /\ \E i \in Events("get") : trace[i].site = "checkRateLimit" /\ ~trace[i].ok
  /\ \E i \in AIRuns : trace[i].site = "classifyEmail" /\ ~trace[i].ok
  /\ RejectCalls = {}
  /\ Forwarded

PriorityHeadersSet ==
  /\ << "X-Priority", "High" >> \in headers
  /\ << "Importance", "high" >> \in headers
NoForwardThrew == \A i \in ForwardCalls : trace[i].ok

\* C24: for a recipient admin@D with D flagged priority, when every inference
\* call has failed, the handler makes no dispatch, its forward is
\* message.forward("mgmt@aribia.llc") with X-Priority: High and Importance:
\* high set before it, and the invocation ends with the message forwarded to
\* mgmt@aribia.llc unless that forward throws.
C24_AdminFallbackToManagement ==
  Local = "admin" /\ DomainFlagged /\ AllInferenceFailed =>
    /\ forwardTo \in {Null, "mgmt@aribia.llc"}
    /\ workstream = Null
    /\ DispatchCalls = {}
    /\ RejectCalls = {}
    /\ \A i \in DirectForwards : trace[i].arg = "mgmt@aribia.llc" /\ PriorityHeadersSet
    /\ (Done /\ NoForwardThrew =>
          /\ ForwardedTo("mgmt@aribia.llc")
          /\ Cardinality(ForwardCalls) = 1
          /\ PriorityHeadersSet)

C24_Witness ==
  /\ Done
  /\ message.to = "admin@nevershitty.com"
  /\ message.from = "alice@example.com"
  /\ AllInferenceFailed
  /\ aiInsights.urgency = "normal"
  /\ ForwardedTo("mgmt@aribia.llc")
  /\ PriorityHeadersSet

NoEndpointConfigured ==
  /\ env.EVIDENCE_ROUTER_URL = ""
  /\ env.FINANCE_ROUTER_URL = ""
  /\ env.COMPLIANCE_ROUTER_URL = ""

\* C25: for a recipient legal@D with classified urgency critical, a category
\* other than spam and none of the three workstream endpoints configured, the
\* handler never calls sendToEvidenceRouter and makes no POST, its forward is
\* message.forward("mgmt@aribia.llc") with the priority headers set, whatever
\* the category and the sentiment, and the invocation ends with the message
\* forwarded to mgmt@aribia.llc unless that forward throws.
C25_LegalCriticalToManagement ==
  /\ Local = "legal"
  /\ aiInsights.urgency = "critical"
  /\ aiInsights.classification # "spam"
  /\ NoEndpointConfigured
  => /\ forwardTo \in {Null, "mgmt@aribia.llc"}
     /\ workstream = Null
     /\ DispatchCalls = {}
     /\ Posts = {}
     /\ RejectCalls = {}
     /\ \A i \in DirectForwards : trace[i].arg = "mgmt@aribia.llc" /\ PriorityHeadersSet
     /\ (Done /\ NoForwardThrew =>
           /\ ForwardedTo("mgmt@aribia.llc")
           /\ Cardinality(ForwardCalls) = 1
           /\ PriorityHeadersSet)

C25_Witness ==
  /\ Done
  /\ message.to = "legal@chittychat.com"
  /\ aiInsights.urgency = "critical"
  /\ aiInsights.classification = "invoice"
  /\ aiInsights.sentiment = "angry"
  /\ NoEndpointConfigured
  /\ ForwardedTo("mgmt@aribia.llc")
  /\ PriorityHeadersSet
  /\ Posts = {}

Cancelled == Done /\ returnedAt = "cancelled"

\* C26: an invocation that the runtime's request timeout cancelled, at
\* whatever point of processing, has forwarded the message (to the safe
\* default address, or to the address its routing had chosen) or has
\* rejected, dispatched or discarded it: the message is not silently dropped.
C26_TimeoutStillForwards ==
  Cancelled => (Forwarded \/ Rejected \/ Dispatched)

UpdateGets ==
  { k \in Events("get") : trace[k].site = "updateRateLimit" }
UpdatePuts ==
  { k \in Events("put") : trace[k].site = "updateRateLimit" }
AllInvocationsDone == \A i \in Invocations : pc[i] = "done"
\* the count stored when the invocations started (0 when nothing was stored)
CountAtStart == trace[1].arg.data.count
\* every invocation read the record before any invocation wrote it
AllReadBeforeAnyWrite ==
  /\ Cardinality(UpdateGets) = MaxInvocations
  /\ \A g \in UpdateGets, p \in UpdatePuts : g < p

\* C27: the read and the write of updateRateLimit are separate steps, so
\* concurrent invocations for one sender can all read the same stored count
\* before any of them writes; each of them then forwards its message and
\* writes that count plus 1, and the stored count ends just 1 above the count
\* at the start although every one of the messages was forwarded.  Whenever a
\* put is made, the count it writes is 1 above the count its own invocation
\* read, whatever has been stored meanwhile.
C27_LostUpdate ==
  /\ \A p \in UpdatePuts :
       trace[p].arg.data.count = existingOf(trace[p].arg.inv).count + 1
  /\ (AllInvocationsDone /\ AllReadBeforeAnyWrite =>
        /\ \A g \in UpdateGets : trace[g].arg.data.count = CountAtStart
        /\ Cardinality(DirectForwards) = MaxInvocations
        /\ RATE_LIMITS.count = CountAtStart + 1)

C27_Witness ==
  /\ AllInvocationsDone
  /\ AllReadBeforeAnyWrite
  /\ CountAtStart = 3
  /\ \A i \in Invocations : returnedAt[i] = "forwarded"
  /\ Cardinality(DirectForwards) >= 2
  /\ RATE_LIMITS.count = 4

\* C28: in the AI worker a message classified legal or contract is forwarded
\* to mgmt@aribia.llc and to no other address, whatever the recipient
\* local-part and also when a storage call made while handling it has failed.
C28_LegalAlwaysToManagement ==
  aiInsights.classification \in {"legal", "contract"} =>
    /\ \A i \in ForwardCalls : trace[i].arg = "mgmt@aribia.llc"
    /\ (Done /\ NoForwardThrew => ForwardedTo("mgmt@aribia.llc"))

\* C29: in the AI worker a message classified spam is rejected and never
\* forwarded, and nothing is written for it: no auto-response record and no
\* task precedes the reject.
C29_SpamRejectedFirst ==
  aiInsights.classification = "spam" =>
    /\ ForwardCalls = {}
    /\ Events("put") = {}
    /\ (Done => Rejected)

Archived ==
  \E i \in Events("put") : trace[i].site = "archiveEmail" /\ trace[i].ok

\* C30: in the AI worker a message classified newsletter or marketing for a
\* local-part other than nick and sharon is never forwarded on the direct
\* path, and once the handler has ended an archive record has been stored for
\* it or (on the error path) it has been forwarded: it never ends both
\* unforwarded and unarchived.
C30_MarketingArchived ==
  /\ aiInsights.classification \in {"newsletter", "marketing"}
  /\ Local \notin {"nick", "sharon"}
  => /\ DirectForwards = {}
     /\ (Done /\ NoForwardThrew => Archived \/ Forwarded)

UrgencyKeywordPresent ==
  \E keyword \in urgentKeywords :
    includes(toLowerCase(message.subject \o " " \o message.body), keyword)
UrgencyCalls == { i \in AIRuns : trace[i].site = "checkUrgency" }

\* C31: checkUrgency returns normal without an inference call when subject and
\* body hold no urgency keyword; with a keyword it makes one inference call
\* and returns the answer when that is one of critical, high, normal, low, and
\* high whenever the call gives no valid urgency (it failed, or the answer is
\* not one of the four).
C31_UrgencyDefaults ==
  aiInsights # NoInsights =>
    IF ~UrgencyKeywordPresent
    THEN aiInsights.urgency = "normal" /\ UrgencyCalls = {}
    ELSE /\ Cardinality(UrgencyCalls) = 1
         /\ \A i \in UrgencyCalls :
              aiInsights.urgency =
                IF /\ trace[i].ok
                   /\ trim(toLowerCase(trace[i].arg)) \in {"critical", "high", "normal", "low"}
                THEN trim(toLowerCase(trace[i].arg))
                ELSE "high"

EntityCalls == { i \in AIRuns : trace[i].site = "extractEntities" }
\* the lines of an answer that contain a colon, in order
ColonLines(response) ==
  SelectSeq(split(response, "\n"), LAMBDA line : includes(line, ":"))

\* C32: whatever the inference capability answers (a valid value, another
\* text, or an error), the joined classification is well-formed: the category
\* is one of the 20 categories, the sentiment one of positive, negative,
\* neutral, urgent, angry, the urgency one of critical, high, normal, low, and
\* the entities are the first five at most of the answer's lines that contain
\* a colon, each with the text before the colon as type and the text after it
\* as value (none when the call failed).
C32_WellFormedClassification ==
  aiInsights # NoInsights =>
    /\ aiInsights.classification \in
         {"invoice", "receipt", "contract", "legal", "support", "complaint",
          "meeting", "calendar", "newsletter", "marketing", "personal", "business",
          "api-notification", "security-alert", "compliance", "audit",
          "regulatory", "governance", "spam", "general"}
    /\ aiInsights.sentiment \in {"positive", "negative", "neutral", "urgent", "angry"}
    /\ aiInsights.urgency \in {"critical", "high", "normal", "low"}
    /\ Len(aiInsights.entities) <= 5
    /\ \A i \in EntityCalls :
         IF ~trace[i].ok THEN aiInsights.entities = << >>
         ELSE LET from == ColonLines(trace[i].arg)
              IN  /\ Len(aiInsights.entities) = (IF Len(from) < 5 THEN Len(from) ELSE 5)
                  /\ \A k \in 1..Len(aiInsights.entities) :
                       /\ aiInsights.entities[k].type = trim(split(from[k], ":")[1])
                       /\ aiInsights.entities[k].value = trim(split(from[k], ":")[2])

C32_Witness ==
  /\ aiInsights # NoInsights
  /\ \E i \in EntityCalls : trace[i].arg = SevenEntities
  /\ Len(aiInsights.entities) = 5
  /\ aiInsights.entities[3].type = "c"
  /\ \E i \in AIRuns : trace[i].site = "classifyEmail" /\ trace[i].arg = "I cannot classify this"
  /\ aiInsights.classification = "general"
  /\ \E i \in AIRuns : trace[i].site = "analyzeSentiment" /\ trace[i].arg = "furious"
  /\ aiInsights.sentiment = "neutral"

CategoryCalls == { i \in AIRuns : trace[i].site = "classifyEmail" }
SentimentCalls == { i \in AIRuns : trace[i].site = "analyzeSentiment" }

\* C33: the four analyses degrade independently.  Whichever of the four
\* inference calls fail, the join completes with all four results; an
\* analysis whose call failed gives its own default (general, neutral, high
\* with an urgency keyword, no entities), and an analysis whose call did not
\* fail gives the value its own answer determines, the same whatever the
\* other three calls did.
C33_IndependentDegradation ==
  /\ (\E i \in EntityCalls : TRUE) => aiInsights # NoInsights
  /\ aiInsights # NoInsights =>
       /\ \A i \in CategoryCalls :
            aiInsights.classification =
              (IF trace[i].ok THEN classifyEmail(trace[i].arg) ELSE "general")
       /\ \A i \in SentimentCalls :
            aiInsights.sentiment =
              (IF trace[i].ok THEN analyzeSentiment(trace[i].arg) ELSE "neutral")
       /\ \A i \in UrgencyCalls :
            aiInsights.urgency =
              (IF trace[i].ok
               THEN checkUrgency(message.subject, message.body, trace[i].arg)
               ELSE "high")
       /\ (UrgencyCalls = {} => aiInsights.urgency = "normal")
       /\ \A i \in EntityCalls :
            aiInsights.entities =
              (IF trace[i].ok THEN extractEntities(trace[i].arg) ELSE << >>)
       /\ Cardinality(CategoryCalls) = 1
       /\ Cardinality(SentimentCalls) = 1
       /\ Cardinality(EntityCalls) = 1

C33_Witness ==
  /\ \E i \in CategoryCalls : ~trace[i].ok
  /\ \E i \in SentimentCalls : trace[i].ok /\ trace[i].arg = "Angry"
  /\ \E i \in UrgencyCalls : trace[i].ok /\ trace[i].arg = "CRITICAL"
  /\ \E i \in EntityCalls : ~trace[i].ok
  /\ aiInsights = [classification |-> "general", sentiment |-> "angry",
                   urgency |-> "critical", entities |-> << >>]

RatePuts == { i \in Events("put") : trace[i].site = "updateRateLimit" }

\* C34: the sender's rate record changes only in the updateRateLimit call that
\* ends a completed direct forward.  Every step that changes the stored record
\* is that call, made after message.forward(forwardTo) returned, and an
\* invocation that ended in a reject, a discard, a dispatch (with or without
\* its fallback forward) or the top-level fallback forward has made no put of
\* a rate record.
C34_RateRecordFrame ==
  /\ [][RATE_LIMITS' # RATE_LIMITS =>
          /\ pc = "updateRateLimit"
          /\ returnedAt' = "forwarded"
          /\ \E i \in DirectForwards : trace[i].ok
          /\ trace'[Len(trace')].op = "put"
          /\ trace'[Len(trace')].site = "updateRateLimit"]_vars
  /\ [](RatePuts # {} =>
          /\ \E i \in DirectForwards : trace[i].ok
          /\ Done /\ returnedAt = "forwarded"
          /\ ~Rejected /\ DispatchCalls = {})
  /\ [](Done /\ returnedAt # "forwarded" => RatePuts = {})

C34_Witness ==
  /\ Done
  /\ env.RATE_LIMITS
  /\ returnedAt = "dispatch"
  /\ \E i \in ForwardCalls : trace[i].site = "dispatchFallback" /\ trace[i].ok
  /\ RatePuts = {}
  /\ RATE_LIMITS = NoEntry

StoredCountsBefore(p) ==
  {CountAtStart} \cup { trace[q].arg.data.count : q \in { r \in UpdatePuts : r < p } }

\* C36: under every interleaving of the concurrent invocations of one sender
\* the counter never over-counts: the stored count is at most the count at the
\* start plus the number of updateRateLimit calls started since, and every put
\* writes a count of 1 or a count stored earlier plus 1.
C36_NeverOverCounts ==
  trace # << >> =>
    /\ RATE_LIMITS.count <= CountAtStart + Cardinality(UpdateGets)
    /\ \A p \in UpdatePuts :
         \/ trace[p].arg.data.count = 1
         \/ \E c \in StoredCountsBefore(p) : trace[p].arg.data.count = c + 1

C36_Witness ==
  /\ AllInvocationsDone
  /\ AllReadBeforeAnyWrite
  /\ CountAtStart = 49
  /\ Cardinality(UpdatePuts) >= 2
  /\ RATE_LIMITS.count = 50

\* the get of checkRateLimit threw
CheckGetFailed ==
  \E i \in Events("get") : trace[i].site = "checkRateLimit" /\ ~trace[i].ok
\* the text stored for the sender is readable and is no JSON
RecordUnparsable == RecordStored /\ ~jsonParses(RATE_LIMITS)
\* the calls of the rate limiter to the store
StoreCalls ==
  { i \in 1..Len(trace) : trace[i].site \in {"checkRateLimit", "updateRateLimit"} }

\* C37: the rate limiter fails open.  Without the store binding, after a get
\* of checkRateLimit that threw, or with a stored record that cannot be
\* parsed, the check returns false: the message is not rejected for rate
\* limiting.  updateRateLimit returns normally whatever its get, parse or put
\* did: the invocation that reached it ends as forwarded, and with an
\* unparsable record it writes nothing.  The top-level fallback forward is
\* made only after a call outside the rate limiter threw.
C37_FailsOpen ==
  /\ (pc # "checkRateLimit" /\ (~env.RATE_LIMITS \/ CheckGetFailed \/ RecordUnparsable) =>
        /\ \A i \in RejectCalls : trace[i].site # "rateLimit"
        /\ returnedAt # "rateLimited")
  /\ (\E i \in StoreCalls : trace[i].site = "updateRateLimit") =>
        /\ Done /\ returnedAt = "forwarded"
        /\ (RecordUnparsable => RatePuts = {})
  /\ (pc = "catch" \/ returnedAt = "caught" =>
        \E i \in 1..Len(trace) : ~trace[i].ok /\ i \notin StoreCalls)

C37_Witness ==
  /\ Done /\ returnedAt = "forwarded"
  /\ CheckGetFailed
  /\ \E i \in StoreCalls : trace[i].site = "updateRateLimit" /\ ~trace[i].ok
  /\ RATE_LIMITS = OverLimitEntry
  /\ Forwarded
  /\ RejectCalls = {}

\* what the four analyses return when each of them falls back to its default
DefaultInsights ==
  [classification |-> "general", sentiment |-> "neutral", urgency |-> "normal",
   entities |-> << >>]
\* message.text() threw
TextFailed == \E i \in Events("text") : ~trace[i].ok
\* no inference capability is configured, or reading the body failed
Unclassified == ~env.AI \/ TextFailed

\* C38: without an inference capability, or when reading the message body
\* fails, the handler routes without classification (no inference call, no
\* insights), and its routing outcome and its priority flag are those of a run
\* in which the classification returned the defaults: in both kinds of run the
\* outcome is the same function of the recipient, the filters and the
\* workstream configuration, and the priority headers are set exactly for a
\* flagged domain, a priority local-part or an allowlisted sender.
C38_UnclassifiedRoutesAsDefaults ==
  /\ (pc \notin {"checkRateLimit", "isSpamQuick", "ai"} /\ Unclassified =>
        aiInsights = NoInsights /\ AIRuns = {})
  /\ (Done /\ (Unclassified \/ aiInsights = DefaultInsights) =>
        /\ RoutingTaken =
             Resolve(Local, RateLimited, isSpamQuick(message), env, NoInsights)
        /\ (DirectForwards # {} =>
              (PriorityHeadersSet <=>
                 \/ DomainFlagged
                 \/ Local \in {"legal", "security", "abuse"}
                 \/ TrustedSender)))

C38_Witness ==
  /\ Done
  /\ env.AI /\ TextFailed
  /\ aiInsights = NoInsights
  /\ DomainFlagged /\ Local = "admin"
  /\ PriorityHeadersSet
  /\ RoutingTaken = << "forward", "mgmt@aribia.llc" >>

====
